---- MODULE Spec2Model ----
(***************************************************************************)
(* The migration runner of dbuddy (MigrationRunner, src/unnamed/part_008)  *)
(* as a state machine: the migrations directory, the PostgreSQL database   *)
(* (tracking table dbuddy_migrations and the schema objects the migration  *)
(* SQL creates), and the runner's asynchronous operations initialize,      *)
(* getStatus, migrateUp and migrateDown, one action per awaited database   *)
(* round trip.                                                             *)
(***************************************************************************)
EXTENDS Integers, Sequences, FiniteSets, TLC

(***************************************************************************)
(* Bounds of the model.                                                    *)
(***************************************************************************)
\* how many database calls the environment may make fail in one behaviour
MaxFaults == 1
\* how many runner operations are started in one behaviour
MaxCalls == 2
\* how many times the migrations directory is rewritten between operations
MaxEdits == 1

(***************************************************************************)
(* Strings.  A version or a target is a JavaScript string of decimal       *)
(* digits, modelled as the sequence of its digits; the empty string is     *)
(* <<>>.  Names and SQL keywords are TLA+ strings.                         *)
(***************************************************************************)
\* the width the file-name pattern demands of a version: \d{14}
VersionWidth == 14

Digits == 0..9

\* options.target left out (undefined)
NoTarget == <<-1>>

\* JavaScript's a < b on strings: lexicographic by code unit, a proper
\* prefix is smaller
RECURSIVE StrLess(_, _)
StrLess(a, b) ==
    IF b = <<>> THEN FALSE
    ELSE IF a = <<>> THEN TRUE
    ELSE IF Head(a) = Head(b) THEN StrLess(Tail(a), Tail(b))
    ELSE Head(a) < Head(b)

StrLeq(a, b) == a = b \/ StrLess(a, b)

StrGreater(a, b) == StrLess(b, a)

\* a.localeCompare(b) on digit strings: negative, zero or positive
LocaleCompare(a, b) ==
    IF a = b THEN 0 ELSE IF StrLess(a, b) THEN -1 ELSE 1

\* JavaScript truthiness of options.target: undefined and "" are falsy
Truthy(target) == target # NoTarget /\ target # <<>>

(***************************************************************************)
(* SQL.  A script is the sequence of its statements; a statement is a      *)
(* comment line, CREATE TABLE t, DROP TABLE IF EXISTS t or a statement     *)
(* PostgreSQL rejects.  test_posts has a foreign key to test_users.        *)
(***************************************************************************)
Stmt(op, obj) == [op |-> op, obj |-> obj]

Tables == {"test_users", "test_posts", "test_tags"}

\* the tables a table's foreign keys reference
Refs(t) == IF t = "test_posts" THEN {"test_users"} ELSE {}

\* one statement on the schema sch: [ok, schema]
ExecStmt(s, sch) ==
    CASE s.op = "comment" -> [ok |-> TRUE, schema |-> sch]
      [] s.op = "create" ->
            IF s.obj \in sch \/ ~(Refs(s.obj) \subseteq sch)
            THEN [ok |-> FALSE, schema |-> sch]
            ELSE [ok |-> TRUE, schema |-> sch \cup {s.obj}]
      [] s.op = "dropIfExists" ->
            IF \E t \in sch : s.obj \in Refs(t)
            THEN [ok |-> FALSE, schema |-> sch]
            ELSE [ok |-> TRUE, schema |-> sch \ {s.obj}]
      [] OTHER -> [ok |-> FALSE, schema |-> sch]

\* client.query(sql) of a whole script inside the open transaction: the
\* statements run in order and the first failing one fails the query
RECURSIVE ExecSql(_, _)
ExecSql(sql, sch) ==
    IF sql = <<>> THEN [ok |-> TRUE, schema |-> sch]
    ELSE LET one == ExecStmt(Head(sql), sch)
         IN  IF one.ok THEN ExecSql(Tail(sql), one.schema)
             ELSE [ok |-> FALSE, schema |-> sch]

\* calculateChecksum: the digest of the concatenation upSql + downSql,
\* modelled by the concatenation it is computed from
calculateChecksum(upSql, downSql) == upSql \o downSql

(***************************************************************************)
(* The migrations directory: the sequence of files in the order readdir    *)
(* returns them.  A file name is <prefix>_<name>.<direction>.<ext>.        *)
(***************************************************************************)
File(prefix, name, direction, content) ==
    [prefix |-> prefix, name |-> name, direction |-> direction,
     ext |-> "sql", content |-> content]

\* file.endsWith('.sql') and file.match(/^(\d{14})_(.+)\.(up|down)\.sql$/)
Matches(f) ==
    /\ f.ext = "sql"
    /\ Len(f.prefix) = VersionWidth
    /\ \A i \in 1..Len(f.prefix) : f.prefix[i] \in Digits
    /\ f.name # ""
    /\ f.direction \in {"up", "down"}

\* the key `${version}_${name}` of the grouping map
KeyOf(f) == <<f.prefix, f.name>>

\* the keys of the map in insertion order
RECURSIVE MapKeys(_, _)
MapKeys(files, seen) ==
    IF files = <<>> THEN seen
    ELSE LET f == Head(files)
         IN  IF Matches(f) /\ \A i \in 1..Len(seen) : seen[i] # KeyOf(f)
             THEN MapKeys(Tail(files), Append(seen, KeyOf(f)))
             ELSE MapKeys(Tail(files), seen)

\* what the loop leaves in migration.upSql / migration.downSql for a key:
\* the content of the last file of that key and direction, or undefined
\* (modelled as the empty content, which is falsy like undefined)
RECURSIVE ContentOf(_, _, _)
ContentOf(files, key, direction) ==
    IF files = <<>> THEN <<>>
    ELSE LET f == files[Len(files)]
         IN  IF Matches(f) /\ KeyOf(f) = key /\ f.direction = direction
             THEN f.content
             ELSE ContentOf(SubSeq(files, 1, Len(files) - 1), key, direction)

\* migrations.sort((a, b) => a.version.localeCompare(b.version)): the
\* sort is stable, so equal versions keep their insertion order
RECURSIVE InsertByVersion(_, _)
InsertByVersion(m, sorted) ==
    IF sorted = <<>> THEN <<m>>
    ELSE LET last == sorted[Len(sorted)]
         IN  IF LocaleCompare(last.version, m.version) <= 0
             THEN Append(sorted, m)
             ELSE Append(InsertByVersion(m, SubSeq(sorted, 1, Len(sorted) - 1)),
                         last)

RECURSIVE SortByVersion(_)
SortByVersion(ms) ==
    IF ms = <<>> THEN <<>>
    ELSE InsertByVersion(ms[Len(ms)], SortByVersion(SubSeq(ms, 1, Len(ms) - 1)))

\* a loop that keeps the migrations that lack a file too
RECURSIVE CompleteMigrations_KeepAll(_, _)
CompleteMigrations_KeepAll(keys, files) ==
    IF keys = <<>> THEN <<>>
    ELSE LET key == Head(keys)
         IN  <<[version |-> key[1], name |-> key[2],
                upSql |-> ContentOf(files, key, "up"),
                downSql |-> ContentOf(files, key, "down")]>>
             \o CompleteMigrations_KeepAll(Tail(keys), files)

\* a loop that asks whether the two files are there, not what they hold
RECURSIVE CompleteMigrations_Present(_, _)
CompleteMigrations_Present(keys, files) ==
    IF keys = <<>> THEN <<>>
    ELSE LET key == Head(keys)
             there(direction) ==
                 \E i \in 1..Len(files) :
                     /\ Matches(files[i]) /\ KeyOf(files[i]) = key
                     /\ files[i].direction = direction
             rest == CompleteMigrations_Present(Tail(keys), files)
         IN  IF there("up") /\ there("down")
             THEN <<[version |-> key[1], name |-> key[2],
                     upSql |-> ContentOf(files, key, "up"),
                     downSql |-> ContentOf(files, key, "down")]>> \o rest
             ELSE rest

\* the complete migrations of the map, in insertion order
RECURSIVE CompleteMigrations(_, _)
CompleteMigrations(keys, files) ==
    IF keys = <<>> THEN <<>>
    ELSE LET key == Head(keys)
             upSql == ContentOf(files, key, "up")
             downSql == ContentOf(files, key, "down")
             rest == CompleteMigrations(Tail(keys), files)
         IN  IF upSql = <<>> \/ downSql = <<>>
             THEN rest
             ELSE <<[version |-> key[1], name |-> key[2],
                     upSql |-> upSql, downSql |-> downSql]>> \o rest

\* the first definition of each version
RECURSIVE FirstPerVersion(_, _)
FirstPerVersion(ms, seen) ==
    IF ms = <<>> THEN <<>>
    ELSE IF Head(ms).version \in seen THEN FirstPerVersion(Tail(ms), seen)
    ELSE <<Head(ms)>>
             \o FirstPerVersion(Tail(ms), seen \cup {Head(ms).version})

\* a discovery that keeps one definition per version
loadMigrationFiles_OnePerVersion(files) ==
    FirstPerVersion(
        SortByVersion(CompleteMigrations(MapKeys(files, <<>>), files)), {})

\* loadMigrationFiles without its final sort
loadMigrationFiles_Unsorted(files) ==
    CompleteMigrations(MapKeys(files, <<>>), files)

loadMigrationFiles(files) ==
    SortByVersion(CompleteMigrations(MapKeys(files, <<>>), files))

(***************************************************************************)
(* The migration sets of the behaviours checked: the versions and the SQL  *)
(* of tests/migration.test.ts.                                             *)
(***************************************************************************)
V1 == <<2, 0, 2, 4, 0, 1, 0, 1, 1, 2, 0, 0, 0, 0>>
V2 == <<2, 0, 2, 4, 0, 1, 0, 1, 1, 3, 0, 0, 0, 0>>
V3 == <<2, 0, 2, 4, 0, 1, 0, 1, 1, 4, 0, 0, 0, 0>>

Versions == {V1, V2, V3}

\* the values of options.target tried: left out, the empty string, a version
Targets == {NoTarget, <<>>, V1}

CreateUsers == <<Stmt("create", "test_users")>>
DropUsers == <<Stmt("dropIfExists", "test_users")>>
CreatePosts == <<Stmt("create", "test_posts")>>
DropPosts == <<Stmt("dropIfExists", "test_posts")>>
CreateTags == <<Stmt("create", "test_tags")>>
DropTags == <<Stmt("dropIfExists", "test_tags")>>
\* 'CREATE TABLE ...; INVALID SQL STATEMENT;'
CreateThenInvalid == <<Stmt("create", "test_posts"), Stmt("invalid", "")>>

\* add_users and add_posts, listed newest first
DirTwo ==
    <<File(V2, "add_posts", "down", DropPosts),
      File(V2, "add_posts", "up", CreatePosts),
      File(V1, "add_users", "down", DropUsers),
      File(V1, "add_users", "up", CreateUsers)>>

\* three migrations, the middle one with an invalid statement
DirBad ==
    <<File(V3, "add_tags", "up", CreateTags),
      File(V3, "add_tags", "down", DropTags),
      File(V1, "add_users", "up", CreateUsers),
      File(V1, "add_users", "down", DropUsers),
      File(V2, "invalid_migration", "up", CreateThenInvalid),
      File(V2, "invalid_migration", "down", DropPosts)>>

\* two complete pairs that share a version
DirDup ==
    <<File(V1, "add_users", "up", CreateUsers),
      File(V1, "add_users", "down", DropUsers),
      File(V1, "add_tags", "up", CreateTags),
      File(V1, "add_tags", "down", DropTags)>>

\* the down file of add_users after an edit: a comment line was added
DropUsersEdited ==
    <<Stmt("comment", "rollback"), Stmt("dropIfExists", "test_users")>>

\* add_users with its down file edited, and add_posts without its down file
DirOne ==
    <<File(V1, "add_users", "up", CreateUsers),
      File(V2, "add_posts", "up", CreatePosts),
      File(V1, "add_users", "down", DropUsersEdited)>>

Dirs == {DirTwo, DirBad, DirDup, DirOne}

(***************************************************************************)
(* State.                                                                  *)
(***************************************************************************)
VARIABLES
    dir,          \* the migrations directory, in readdir order
    tableExists,  \* whether the table dbuddy_migrations exists
    records,      \* the committed rows of dbuddy_migrations
    schema,       \* the committed tables created by migration SQL
    pc,           \* pc[r]: where runner r's current operation stands
    cur,          \* cur[r]: the current (or last) operation of runner r
    prev,         \* prev[r]: the successful migrateUp before cur[r], if any
    tx,           \* tx[r]: the transaction on the client runner r holds
    client,       \* client[r]: runner r holds a pooled connection
    live,         \* versions whose up transaction committed, not undone since
    faults,       \* database calls the environment has made fail
    ncalls,       \* operations started
    edits         \* rewrites of the directory

vars == <<dir, tableExists, records, schema, pc, cur, prev, tx, client, live,
          faults, ncalls, edits>>

\* the runner instances there are, each with a connection pool of its own
Instances == {1, 2}

\* the instances that run operations when one runner works on the database
Runners == {1}

\* a transaction: the schema it sees (schema), the committed schema its
\* statements started from (base), the rows it inserted and the versions
\* whose rows it deleted
NoTx == [open |-> FALSE, schema |-> {}, base |-> {}, ins |-> {}, del |-> {}]

\* ran: the migration SQL texts the database has run to the end for it;
\* deleted: the versions of which a DELETE of it has removed the row
NoCall ==
    [op |-> "none", target |-> NoTarget, dryRun |-> FALSE, defs |-> <<>>,
     applied |-> <<>>, batch |-> <<>>, idx |-> 0, result |-> "none",
     failed |-> FALSE, failedAt |-> "none", readFailed |-> FALSE,
     log |-> <<>>, startRecords |-> {}, startSchema |-> {},
     startTable |-> FALSE, atRecords |-> {}, atSchema |-> {},
     files |-> <<>>, id |-> 0, during |-> {}, rollback |-> "none",
     conns |-> 0, ran |-> <<>>, deleted |-> {}]

Init ==
    /\ dir \in Dirs
    /\ tableExists \in BOOLEAN
    /\ records = {}
    /\ schema = {}
    /\ pc = [r \in Instances |-> "idle"]
    /\ cur = [r \in Instances |-> NoCall]
    /\ prev = [r \in Instances |-> NoCall]
    /\ tx = [r \in Instances |-> NoTx]
    /\ client = [r \in Instances |-> FALSE]
    /\ live = {}
    /\ faults = 0
    /\ ncalls = 0
    /\ edits = 0

\* whether the environment makes the next database call fail
Fails == {FALSE} \cup (IF faults < MaxFaults THEN {TRUE} ELSE {})

VersionsOf(rows) == {row.version : row \in rows}

\* rows ORDER BY version
RECURSIVE OrderByVersion(_)
OrderByVersion(rows) ==
    IF rows = {} THEN <<>>
    ELSE LET first == CHOOSE x \in rows :
                          \A y \in rows : StrLeq(x.version, y.version)
         IN  <<first>> \o OrderByVersion(rows \ {first})

\* getAppliedMigrations: the rows in version order; any failure of the
\* query, a missing table included, yields the empty list
getAppliedMigrations(fail) ==
    IF fail \/ ~tableExists THEN <<>> ELSE OrderByVersion(records)

\* a read that lets the error of its query escape
ReadRejects_Rethrows(fail) == fail \/ ~tableExists

\* a read that returns [] for a missing table and lets other errors escape
ReadRejects_OtherErrors(fail) == fail /\ tableExists

\* lines 155-163: whether the promise of getAppliedMigrations rejects; its
\* catch block returns [] for every error, so it never does
ReadRejects(fail) == FALSE

RECURSIVE SeqRange(_)
SeqRange(s) == IF s = <<>> THEN {} ELSE {Head(s)} \cup SeqRange(Tail(s))

\* the operations of other instances that are under way
Running == {cur[q].id : q \in {i \in Instances : pc[i] # "idle"}}

\* what the call-start snapshot of an operation records; id numbers the
\* operations in the order they start
StartCall(op, target, dryRun) ==
    [NoCall EXCEPT !.op = op, !.target = target, !.dryRun = dryRun,
                   !.result = "running", !.startRecords = records,
                   !.startSchema = schema, !.startTable = tableExists,
                   !.files = IF op = "init" THEN <<>> ELSE dir,
                   !.id = ncalls + 1, !.during = Running]

Event(e, version, name) == [e |-> e, version |-> version, name |-> name]

\* what is kept of a call once the next one has started: its options, the
\* files and records it started from and the migrations it committed
Summary(call) ==
    [NoCall EXCEPT !.op = call.op, !.target = call.target,
                   !.dryRun = call.dryRun, !.result = call.result,
                   !.defs = call.defs, !.startRecords = call.startRecords,
                   !.startSchema = call.startSchema,
                   !.log = SelectSeq(call.log, LAMBDA ev : ev.e = "commit")]

\* a new operation starts: prev[r] is the last migrateUp that ran for real
\* and succeeded, as long as no migrateUp/migrateDown has run for real
\* since (getStatus, initialize and dry runs change nothing and keep it)
Remember(r) ==
    IF cur[r].op \in {"up", "down"} /\ ~cur[r].dryRun
    THEN IF cur[r].op = "up" /\ cur[r].result = "ok"
         THEN Summary(cur[r]) ELSE NoCall
    ELSE prev[r]

\* the number of database calls that failed by the environment's doing
Count(fail) == IF fail THEN 1 ELSE 0

\* Database.query takes a client from the pool for its statement and gives
\* it back: the connections a call of it has taken, none when the database
\* could not be reached
Pooled(fail) == IF fail THEN 0 ELSE 1

(***************************************************************************)
(* initialize and getStatus: one database round trip each.                 *)
(***************************************************************************)
\* a CREATE TABLE that makes the table anew
RowsAfterCreate_Anew(exists, rows) == {}

\* lines 31-37: the rows of dbuddy_migrations after CREATE TABLE IF NOT
\* EXISTS: those it had when it existed, none in a new table
RowsAfterCreate(exists, rows) == IF exists THEN rows ELSE {}

\* initialize(): CREATE TABLE IF NOT EXISTS dbuddy_migrations, its index
initialize(r) ==
    /\ pc[r] = "idle"
    /\ ncalls < MaxCalls
    /\ \E fail \in Fails :
        /\ tableExists' = (tableExists \/ ~fail)
        /\ records' = IF fail THEN records
                      ELSE RowsAfterCreate(tableExists, records)
        /\ cur' = [cur EXCEPT ![r] =
                     [StartCall("init", NoTarget, FALSE) EXCEPT
                         !.result = IF fail THEN "rejected" ELSE "ok",
                         !.failed = fail, !.conns = Pooled(fail)]]
        /\ faults' = faults + Count(fail)
    /\ prev' = [prev EXCEPT ![r] = Remember(r)]
    /\ ncalls' = ncalls + 1
    /\ UNCHANGED <<dir, schema, pc, tx, client, live, edits>>

\* appliedMap.get(version): the last row read with that version; <<>>
\* stands for undefined
AppliedRow(applied, version) ==
    LET at == {i \in 1..Len(applied) : applied[i].version = version}
    IN  IF at = {} THEN <<>>
        ELSE <<applied[CHOOSE i \in at : \A j \in at : j <= i]>>

\* a status that counts a record as applied only when its checksum is the
\* checksum of the files
StatusList_Verified(defs, applied) ==
    [i \in 1..Len(defs) |->
        LET row == AppliedRow(applied, defs[i].version)
            same == /\ row # <<>>
                    /\ row[1].checksum
                          = calculateChecksum(defs[i].upSql, defs[i].downSql)
        IN  [version |-> defs[i].version, name |-> defs[i].name,
             status |-> IF same THEN "applied" ELSE "pending",
             appliedAt |-> IF same THEN row[1].applied_at ELSE "undefined"]]

\* the MigrationStatus list getStatus builds from the files and the rows;
\* an entry without appliedAt has appliedAt "undefined"
StatusList(defs, applied) ==
    [i \in 1..Len(defs) |->
        LET row == AppliedRow(applied, defs[i].version)
        IN  [version |-> defs[i].version, name |-> defs[i].name,
             status |-> IF row # <<>> THEN "applied" ELSE "pending",
             appliedAt |-> IF row # <<>> THEN row[1].applied_at
                           ELSE "undefined"]]

\* a getStatus that makes the tracking table anew before it reads
getStatus_Resets(r) ==
    /\ pc[r] = "idle"
    /\ ncalls < MaxCalls
    /\ \E fail \in Fails :
        LET defs == loadMigrationFiles(dir)
        IN  /\ cur' = [cur EXCEPT ![r] =
                         [StartCall("status", NoTarget, FALSE) EXCEPT
                             !.defs = defs,
                             !.batch = StatusList(defs, <<>>),
                             !.readFailed = fail, !.result = "ok"]]
            /\ faults' = faults + Count(fail)
    /\ records' = {}
    /\ tableExists' = TRUE
    /\ prev' = [prev EXCEPT ![r] = Remember(r)]
    /\ ncalls' = ncalls + 1
    /\ UNCHANGED <<dir, schema, pc, tx, client, live, edits>>

\* getStatus(): its result is kept in cur[r].batch
getStatus(r) ==
    /\ pc[r] = "idle"
    /\ ncalls < MaxCalls
    /\ \E fail \in Fails :
        LET defs == loadMigrationFiles(dir)
            applied == getAppliedMigrations(fail)
        IN  /\ cur' = [cur EXCEPT ![r] =
                         [StartCall("status", NoTarget, FALSE) EXCEPT
                             !.defs = defs, !.applied = applied,
                             !.batch = IF ReadRejects(fail) THEN <<>>
                                       ELSE StatusList(defs, applied),
                             !.readFailed = fail,
                             !.conns = Pooled(fail),
                             !.result = IF ReadRejects(fail)
                                        THEN "rejected" ELSE "ok"]]
            /\ faults' = faults + Count(fail)
    /\ prev' = [prev EXCEPT ![r] = Remember(r)]
    /\ ncalls' = ncalls + 1
    /\ UNCHANGED <<dir, tableExists, records, schema, pc, tx, client, live,
                   edits>>

(***************************************************************************)
(* generateMigration: a file system operation.                             *)
(***************************************************************************)
\* the decimal digits of n, padded with zeros to width w
Pad(n, w) == [i \in 1..w |-> (n \div (10 ^ (w - i))) % 10]

\* an instant of the clock, in UTC
Instant(y, mo, d, h, mi, sec) ==
    [year |-> y, month |-> mo, day |-> d, hour |-> h, minute |-> mi,
     second |-> sec]

\* lines 60-63: now.toISOString() with '-', ':' and 'T' removed and the
\* milliseconds and the 'Z' cut off: YYYYMMDDHHMMSS
TimestampVersion(now) ==
    Pad(now.year, 4) \o Pad(now.month, 2) \o Pad(now.day, 2)
        \o Pad(now.hour, 2) \o Pad(now.minute, 2) \o Pad(now.second, 2)

\* the instants at which generateMigration is called: the second add_users
\* was generated in, and a later one
Instants ==
    {Instant(2024, 1, 1, 12, 0, 0), Instant(2024, 1, 1, 15, 0, 0)}

\* the names generateMigration is given: a name, and the empty string
Names == {"add_tags", ""}

\* lines 70-82: the templates, comment lines only
UpTemplate(name) ==
    <<Stmt("comment", name), Stmt("comment", "Up migration"),
      Stmt("comment", "Add your SQL statements here")>>

DownTemplate(name) ==
    <<Stmt("comment", name), Stmt("comment", "Down migration (rollback)"),
      Stmt("comment", "Add your rollback SQL statements here")>>

\* fs.writeFileSync(file, content): the file is replaced when the directory
\* has one of that name, and added otherwise
WriteFile(files, f) ==
    LET at == {i \in 1..Len(files) :
                  /\ files[i].prefix = f.prefix /\ files[i].name = f.name
                  /\ files[i].direction = f.direction
                  /\ files[i].ext = f.ext}
    IN  IF at = {} THEN Append(files, f)
        ELSE [i \in 1..Len(files) |-> IF i \in at THEN f ELSE files[i]]

\* generateMigration(name) at the instant now; what it returns is kept in
\* cur[r].batch
generateMigration(r, name, now) ==
    /\ pc[r] = "idle"
    /\ ncalls < MaxCalls
    /\ edits < MaxEdits
    /\ LET version == TimestampVersion(now)
           upFile == File(version, name, "up", UpTemplate(name))
           downFile == File(version, name, "down", DownTemplate(name))
       IN  /\ dir' = WriteFile(WriteFile(dir, upFile), downFile)
           /\ cur' = [cur EXCEPT ![r] =
                        [StartCall("generate", NoTarget, FALSE) EXCEPT
                            !.batch = <<[version |-> version, name |-> name]>>,
                            !.files = dir',
                            !.result = "ok"]]
    /\ prev' = [prev EXCEPT ![r] = Remember(r)]
    /\ ncalls' = ncalls + 1
    /\ edits' = edits + 1
    /\ UNCHANGED <<tableExists, records, schema, pc, tx, client, live, faults>>

(***************************************************************************)
(* migrateUp.                                                              *)
(***************************************************************************)
\* the target filter with < in place of <=
PendingMigrations_Below(defs, applied, target) ==
    LET appliedVersions == VersionsOf(SeqRange(applied))
        pending == SelectSeq(defs, LAMBDA m : m.version \notin appliedVersions)
    IN  IF Truthy(target)
        THEN SelectSeq(pending, LAMBDA m : StrLess(m.version, target))
        ELSE pending

\* a selection of the definitions above the newest applied version only
PendingMigrations_AboveNewest(defs, applied, target) ==
    LET appliedVersions == VersionsOf(SeqRange(applied))
        pending == SelectSeq(defs, LAMBDA m :
                       \A v \in appliedVersions : StrGreater(m.version, v))
    IN  IF Truthy(target)
        THEN SelectSeq(pending, LAMBDA m : StrLeq(m.version, target))
        ELSE pending

\* lines 204-214: the pending migrations, filtered by the target
PendingMigrations(defs, applied, target) ==
    LET appliedVersions == VersionsOf(SeqRange(applied))
        pending == SelectSeq(defs, LAMBDA m : m.version \notin appliedVersions)
    IN  IF Truthy(target)
        THEN SelectSeq(pending, LAMBDA m : StrLeq(m.version, target))
        ELSE pending

\* a dry run that executes all the same
UpExecutes_Always(dryRun) == TRUE

\* line 228: if (!dryRun)
UpExecutes(dryRun) == ~dryRun

\* what a dry run does with the batch: it prints each entry
DryLog(batch) ==
    [i \in 1..Len(batch) |-> Event("dry", batch[i].version, batch[i].name)]

\* migrateUp(options) up to its first await inside the loop
migrateUp(r, target, dryRun) ==
    /\ pc[r] = "idle"
    /\ ncalls < MaxCalls
    /\ \E fail \in Fails :
        LET defs == loadMigrationFiles(dir)
            applied == getAppliedMigrations(fail)
            pending == PendingMigrations(defs, applied, target)
            call == [StartCall("up", target, dryRun) EXCEPT
                        !.defs = defs, !.applied = applied,
                        !.batch = pending, !.readFailed = fail,
                        !.conns = Pooled(fail)]
        IN  /\ faults' = faults + Count(fail)
            /\ IF ReadRejects(fail)
               THEN /\ cur' = [cur EXCEPT ![r] =
                                 [call EXCEPT !.batch = <<>>,
                                              !.result = "rejected"]]
                    /\ pc' = pc
               ELSE IF pending = <<>>
               THEN /\ cur' = [cur EXCEPT ![r] = [call EXCEPT !.result = "ok"]]
                    /\ pc' = pc
               ELSE IF ~UpExecutes(dryRun)
               THEN /\ cur' = [cur EXCEPT ![r] =
                                 [call EXCEPT !.result = "ok",
                                              !.log = DryLog(pending)]]
                    /\ pc' = pc
               ELSE /\ cur' = [cur EXCEPT ![r] = [call EXCEPT !.idx = 1]]
                    /\ pc' = [pc EXCEPT ![r] = "up_connect"]
    /\ prev' = [prev EXCEPT ![r] = Remember(r)]
    /\ ncalls' = ncalls + 1
    /\ UNCHANGED <<dir, tableExists, records, schema, tx, client, live, edits>>

\* the migration the loop is at
Current(r) == cur[r].batch[cur[r].idx]

\* the call of runner r rejects
Reject(r) ==
    /\ cur' = [cur EXCEPT ![r].result = "rejected", ![r].failed = TRUE,
                          ![r].failedAt = "connect"]
    /\ pc' = [pc EXCEPT ![r] = "idle"]

\* a failed statement that is tried again instead of being caught
ToCatch_Retry(r, where, stage, log) ==
    /\ cur' = [cur EXCEPT ![r].failed = TRUE, ![r].failedAt = stage]
    /\ pc' = pc

\* a statement of the transaction failed: control goes to the catch block
ToCatch(r, where, stage, log) ==
    /\ cur' = [cur EXCEPT ![r].failed = TRUE, ![r].failedAt = stage,
                          ![r].log = log]
    /\ pc' = [pc EXCEPT ![r] = where]

(***************************************************************************)
(* What a statement of one instance's transaction waits for when another   *)
(* instance has a transaction open (PostgreSQL, READ COMMITTED): a         *)
(* statement sees the committed state as it is when the statement runs,    *)
(* and waits for the transaction that holds a lock it needs.  With one     *)
(* runner nothing ever waits.                                              *)
(***************************************************************************)
\* the other instances that have a transaction open
OthersOpen(r) == {q \in Instances \ {r} : tx[q].open}

\* the tables other transactions have created, and dropped, uncommitted
MadeByOthers(r) == UNION {tx[q].schema \ tx[q].base : q \in OthersOpen(r)}

GoneByOthers(r) == UNION {tx[q].base \ tx[q].schema : q \in OthersOpen(r)}

\* whether statement s on the schema sch waits: CREATE TABLE for the
\* creator of a table of that name or the dropper of a table it references,
\* DROP TABLE for the dropper of the table or the creator of a table that
\* references it
StmtWaits(s, sch, made, gone) ==
    CASE s.op = "create" ->
            /\ s.obj \notin sch
            /\ \/ s.obj \in made
               \/ Refs(s.obj) \subseteq sch /\ Refs(s.obj) \cap gone # {}
      [] s.op = "dropIfExists" ->
            /\ s.obj \in sch
            /\ \/ s.obj \in gone
               \/ \E t \in made : s.obj \in Refs(t)
      [] OTHER -> FALSE

\* whether client.query(sql) comes to a statement that waits
RECURSIVE SqlWaits(_, _, _, _)
SqlWaits(sql, sch, made, gone) ==
    IF sql = <<>> THEN FALSE
    ELSE IF StmtWaits(Head(sql), sch, made, gone) THEN TRUE
    ELSE LET one == ExecStmt(Head(sql), sch)
         IN  one.ok /\ SqlWaits(Tail(sql), one.schema, made, gone)

\* an INSERT that never waits for another transaction's row
InsertWaits_Never(r, row) == FALSE

\* the INSERT of a version waits for the transaction that has inserted or
\* deleted a row of that version and not committed
InsertWaits(r, row) ==
    \E q \in OthersOpen(r) :
        \/ row.version \in VersionsOf(tx[q].ins)
        \/ row.version \in tx[q].del

\* the DELETE of a version waits for the transaction that has deleted its
\* row and not committed
DeleteWaits(r, version) ==
    \E q \in OthersOpen(r) : version \in tx[q].del

\* a COMMIT or ROLLBACK that leaves the transaction open
EndTx_Leaves(r) == tx' = tx

\* COMMIT or ROLLBACK ends the transaction of the client
EndTx(r) == tx' = [tx EXCEPT ![r] = NoTx]

\* line 230: const client = await this.db.getClient(), outside the try
UpConnect(r) ==
    /\ pc[r] = "up_connect"
    /\ \E fail \in Fails :
        /\ faults' = faults + Count(fail)
        /\ IF fail
           THEN Reject(r) /\ client' = client
           ELSE /\ client' = [client EXCEPT ![r] = TRUE]
                /\ pc' = [pc EXCEPT ![r] = "up_begin"]
                /\ cur' = [cur EXCEPT ![r].atRecords = records,
                                      ![r].atSchema = schema,
                                      ![r].conns = @ + 1]
    /\ UNCHANGED <<dir, tableExists, records, schema, prev, tx, live, ncalls,
                   edits>>

\* line 232: await client.query('BEGIN')
UpBegin(r) ==
    /\ pc[r] = "up_begin"
    /\ \E fail \in Fails :
        /\ faults' = faults + Count(fail)
        /\ IF fail
           THEN ToCatch(r, "up_rollback", "begin", cur[r].log) /\ tx' = tx
           ELSE /\ tx' = [tx EXCEPT ![r] =
                            [NoTx EXCEPT !.open = TRUE, !.schema = schema,
                                         !.base = schema]]
                /\ pc' = [pc EXCEPT ![r] = "up_exec"]
                /\ cur' = cur
    /\ UNCHANGED <<dir, tableExists, records, schema, prev, client, live,
                   ncalls, edits>>

\* line 235: await client.query(migration.upSql)
UpExec(r) ==
    /\ pc[r] = "up_exec"
    /\ ~SqlWaits(Current(r).upSql, schema, MadeByOthers(r), GoneByOthers(r))
    /\ \E fail \in Fails :
        LET run == ExecSql(Current(r).upSql, schema)
            log == Append(cur[r].log,
                          Event("exec", Current(r).version, Current(r).name))
        IN  /\ faults' = faults + Count(fail)
            /\ IF fail \/ ~run.ok
               THEN ToCatch(r, "up_rollback", "exec", log) /\ tx' = tx
               ELSE /\ tx' = [tx EXCEPT ![r].schema = run.schema,
                                        ![r].base = schema]
                    /\ pc' = [pc EXCEPT ![r] = "up_insert"]
                    /\ cur' = [cur EXCEPT
                         ![r].log = log,
                         ![r].ran = Append(@, Current(r).upSql)]
    /\ UNCHANGED <<dir, tableExists, records, schema, prev, client, live,
                   ncalls, edits>>

\* the row INSERT INTO dbuddy_migrations (version, name, checksum) adds;
\* applied_at takes its default, NOW()
NewRow(m) ==
    [version |-> m.version, name |-> m.name,
     checksum |-> calculateChecksum(m.upSql, m.downSql),
     applied_at |-> "now"]

\* an INSERT into a table whose version column is not UNIQUE
InsertOk_NoUnique(row) == tableExists

\* whether the INSERT succeeds: the table exists and version is UNIQUE
InsertOk(row) == tableExists /\ row.version \notin VersionsOf(records)

\* lines 238-241: await client.query('INSERT INTO dbuddy_migrations ...')
UpInsert(r) ==
    /\ pc[r] = "up_insert"
    /\ ~InsertWaits(r, NewRow(Current(r)))
    /\ \E fail \in Fails :
        LET row == NewRow(Current(r))
        IN  /\ faults' = faults + Count(fail)
            /\ IF fail \/ ~InsertOk(row)
               THEN ToCatch(r, "up_rollback", "insert", cur[r].log)
                    /\ tx' = tx
               ELSE /\ tx' = [tx EXCEPT ![r].ins = @ \cup {row}]
                    /\ pc' = [pc EXCEPT ![r] = "up_commit"]
                    /\ cur' = cur
    /\ UNCHANGED <<dir, tableExists, records, schema, prev, client, live,
                   ncalls, edits>>

\* a COMMIT that loses the transaction's change of dbuddy_migrations
Committed_SchemaOnly(r) ==
    /\ schema' = (schema \ (tx[r].base \ tx[r].schema))
                     \cup (tx[r].schema \ tx[r].base)
    /\ records' = records

\* COMMIT makes the transaction's changes of the schema and of the rows
\* the committed ones
Committed(r) ==
    /\ schema' = (schema \ (tx[r].base \ tx[r].schema))
                     \cup (tx[r].schema \ tx[r].base)
    /\ records' = {row \in records : row.version \notin tx[r].del}
                      \cup tx[r].ins

\* a finally block that does not give the client back
Release_None(r) == client' = client

\* the finally block: client.release()
Release(r) == client' = [client EXCEPT ![r] = FALSE]

\* lines 243-244 and 249-253: await client.query('COMMIT'), release the
\* client and go on to the next pending migration
UpCommit(r) ==
    /\ pc[r] = "up_commit"
    /\ \E fail \in Fails :
        /\ faults' = faults + Count(fail)
        /\ IF fail
           THEN /\ ToCatch(r, "up_rollback", "commit", cur[r].log)
                /\ UNCHANGED <<schema, records, tx, client, live>>
           ELSE /\ Committed(r)
                /\ EndTx(r)
                /\ Release(r)
                /\ live' = live \cup {Current(r).version}
                /\ cur' = [cur EXCEPT
                     ![r].log = Append(@, Event("commit", Current(r).version,
                                                Current(r).name)),
                     ![r].idx = @ + 1,
                     ![r].result = IF cur[r].idx = Len(cur[r].batch)
                                   THEN "ok" ELSE @]
                /\ pc' = [pc EXCEPT ![r] =
                            IF cur[r].idx = Len(cur[r].batch)
                            THEN "idle" ELSE "up_connect"]
    /\ UNCHANGED <<dir, tableExists, prev, ncalls, edits>>

\* a catch block that rolls back but does not rethrow: the loop goes on
UpRollback_NoThrow(r) ==
    /\ pc[r] = "up_rollback"
    /\ \E fail \in Fails :
        /\ faults' = faults + Count(fail)
        /\ EndTx(r)
        /\ Release(r)
        /\ cur' = [cur EXCEPT
             ![r].log = Append(@, Event("rollback", Current(r).version,
                                        Current(r).name)),
             ![r].idx = @ + 1,
             ![r].result = IF cur[r].idx = Len(cur[r].batch)
                           THEN "ok" ELSE @]
        /\ pc' = [pc EXCEPT ![r] = IF cur[r].idx = Len(cur[r].batch)
                                   THEN "idle" ELSE "up_connect"]
    /\ UNCHANGED <<dir, tableExists, records, schema, prev, live, ncalls,
                   edits>>

\* lines 245-251: await client.query('ROLLBACK'), then throw error (or the
\* error of the ROLLBACK itself); the finally block releases the client.
\* A ROLLBACK that fails leaves the transaction uncommitted all the same.
UpRollback(r) ==
    /\ pc[r] = "up_rollback"
    /\ \E fail \in Fails :
        /\ faults' = faults + Count(fail)
        /\ EndTx(r)
        /\ Release(r)
        /\ cur' = [cur EXCEPT
             ![r].log = Append(@, Event("rollback", Current(r).version,
                                        Current(r).name)),
             ![r].rollback = IF fail THEN "failed" ELSE "done",
             ![r].result = "rejected"]
        /\ pc' = [pc EXCEPT ![r] = "idle"]
    /\ UNCHANGED <<dir, tableExists, records, schema, prev, live, ncalls,
                   edits>>

(***************************************************************************)
(* migrateDown.                                                            *)
(***************************************************************************)
\* .sort((a, b) => b.version.localeCompare(a.version)), a stable sort
RECURSIVE InsertByVersionDesc(_, _)
InsertByVersionDesc(m, sorted) ==
    IF sorted = <<>> THEN <<m>>
    ELSE LET last == sorted[Len(sorted)]
         IN  IF LocaleCompare(m.version, last.version) <= 0
             THEN Append(sorted, m)
             ELSE Append(InsertByVersionDesc(m, SubSeq(sorted, 1,
                                                       Len(sorted) - 1)),
                         last)

\* a selection left in the order the rows were read in
SortByVersionDesc_None(ms) == ms

RECURSIVE SortByVersionDesc(_)
SortByVersionDesc(ms) ==
    IF ms = <<>> THEN <<>>
    ELSE InsertByVersionDesc(ms[Len(ms)],
                             SortByVersionDesc(SubSeq(ms, 1, Len(ms) - 1)))

\* the target filter with >= in place of >
MigrationsToRollback_Inclusive(applied, target) ==
    SortByVersionDesc(
        SelectSeq(applied,
                  LAMBDA m : ~Truthy(target) \/ ~StrLess(m.version, target)))

\* a selection that keeps the most recent of the selected rows only
MigrationsToRollback_LastOnly(applied, target) ==
    LET all == SortByVersionDesc(
                   SelectSeq(applied,
                             LAMBDA m : ~Truthy(target)
                                        \/ StrGreater(m.version, target)))
    IN  IF all = <<>> THEN <<>> ELSE <<all[1]>>

\* lines 270-272: the applied rows to roll back, newest first
MigrationsToRollback(applied, target) ==
    SortByVersionDesc(
        SelectSeq(applied,
                  LAMBDA m : ~Truthy(target) \/ StrGreater(m.version, target)))

\* fileMigrationMap.get(version): a later definition of a version replaces
\* an earlier one in the Map; <<>> stands for undefined
FileMigration(defs, version) ==
    LET at == {i \in 1..Len(defs) : defs[i].version = version}
    IN  IF at = {} THEN <<>>
        ELSE <<defs[CHOOSE i \in at : \A j \in at : j <= i]>>

\* a loop that stops at a row without a file definition
NextWithFile_Abort(batch, defs, from) ==
    IF from <= Len(batch) /\ FileMigration(defs, batch[from].version) # <<>>
    THEN from ELSE Len(batch) + 1

\* lines 281-287: from position from on, the first entry of the batch that
\* has a file definition (Len(batch) + 1 when there is none)
NextWithFile(batch, defs, from) ==
    LET at == {i \in from..Len(batch) :
                  FileMigration(defs, batch[i].version) # <<>>}
    IN  IF at = {} THEN Len(batch) + 1
        ELSE CHOOSE i \in at : \A j \in at : i <= j

\* the warnings for the entries between from and to that have no file
SkipLog(batch, from, to) ==
    [i \in 1..(to - from) |->
        Event("skip", batch[from + i - 1].version, batch[from + i - 1].name)]

\* a dry run of migrateDown that executes all the same
DownExecutes_Always(dryRun) == TRUE

\* line 291: if (!dryRun)
DownExecutes(dryRun) == ~dryRun

\* what a dry run of migrateDown prints: every entry with a file, and a
\* warning for every entry without
DryDownLog(batch, defs) ==
    [i \in 1..Len(batch) |->
        Event(IF FileMigration(defs, batch[i].version) = <<>>
              THEN "skip" ELSE "dry",
              batch[i].version, batch[i].name)]

\* migrateDown(options) up to its first await inside the loop
migrateDown(r, target, dryRun) ==
    /\ pc[r] = "idle"
    /\ ncalls < MaxCalls
    /\ \E fail \in Fails :
        LET defs == loadMigrationFiles(dir)
            applied == getAppliedMigrations(fail)
            batch == MigrationsToRollback(applied, target)
            first == NextWithFile(batch, defs, 1)
            call == [StartCall("down", target, dryRun) EXCEPT
                        !.defs = defs, !.applied = applied,
                        !.batch = batch, !.readFailed = fail,
                        !.conns = Pooled(fail)]
        IN  /\ faults' = faults + Count(fail)
            /\ IF ReadRejects(fail)
               THEN /\ cur' = [cur EXCEPT ![r] =
                                 [call EXCEPT !.batch = <<>>,
                                              !.result = "rejected"]]
                    /\ pc' = pc
               ELSE IF batch = <<>>
               THEN /\ cur' = [cur EXCEPT ![r] = [call EXCEPT !.result = "ok"]]
                    /\ pc' = pc
               ELSE IF ~DownExecutes(dryRun)
               THEN /\ cur' = [cur EXCEPT ![r] =
                                 [call EXCEPT !.result = "ok",
                                              !.log = DryDownLog(batch, defs)]]
                    /\ pc' = pc
               ELSE IF first > Len(batch)
               THEN /\ cur' = [cur EXCEPT ![r] =
                                 [call EXCEPT !.result = "ok", !.idx = first,
                                              !.log = SkipLog(batch, 1, first)]]
                    /\ pc' = pc
               ELSE /\ cur' = [cur EXCEPT ![r] =
                                 [call EXCEPT !.idx = first,
                                              !.log = SkipLog(batch, 1, first)]]
                    /\ pc' = [pc EXCEPT ![r] = "down_connect"]
    /\ prev' = [prev EXCEPT ![r] = Remember(r)]
    /\ ncalls' = ncalls + 1
    /\ UNCHANGED <<dir, tableExists, records, schema, tx, client, live, edits>>

\* a runner that keeps the definitions its last migrateUp loaded and looks
\* a version up in them first
CurrentFile_Cached(r) ==
    LET kept == FileMigration(prev[r].defs, Current(r).version)
    IN  IF kept # <<>> THEN kept[1]
        ELSE FileMigration(cur[r].defs, Current(r).version)[1]

\* the file definition of the row the loop is at
CurrentFile(r) == FileMigration(cur[r].defs, Current(r).version)[1]

\* line 293: const client = await this.db.getClient(), outside the try
DownConnect(r) ==
    /\ pc[r] = "down_connect"
    /\ \E fail \in Fails :
        /\ faults' = faults + Count(fail)
        /\ IF fail
           THEN Reject(r) /\ client' = client
           ELSE /\ client' = [client EXCEPT ![r] = TRUE]
                /\ pc' = [pc EXCEPT ![r] = "down_begin"]
                /\ cur' = [cur EXCEPT ![r].atRecords = records,
                                      ![r].atSchema = schema,
                                      ![r].conns = @ + 1]
    /\ UNCHANGED <<dir, tableExists, records, schema, prev, tx, live, ncalls,
                   edits>>

\* line 295: await client.query('BEGIN')
DownBegin(r) ==
    /\ pc[r] = "down_begin"
    /\ \E fail \in Fails :
        /\ faults' = faults + Count(fail)
        /\ IF fail
           THEN ToCatch(r, "down_rollback", "begin", cur[r].log) /\ tx' = tx
           ELSE /\ tx' = [tx EXCEPT ![r] =
                            [NoTx EXCEPT !.open = TRUE, !.schema = schema,
                                         !.base = schema]]
                /\ pc' = [pc EXCEPT ![r] = "down_exec"]
                /\ cur' = cur
    /\ UNCHANGED <<dir, tableExists, records, schema, prev, client, live,
                   ncalls, edits>>

\* line 298: await client.query(fileMigration.downSql)
DownExec(r) ==
    /\ pc[r] = "down_exec"
    /\ ~SqlWaits(CurrentFile(r).downSql, schema, MadeByOthers(r),
                 GoneByOthers(r))
    /\ \E fail \in Fails :
        LET run == ExecSql(CurrentFile(r).downSql, schema)
            log == Append(cur[r].log,
                          Event("exec", Current(r).version,
                                Current(r).name))
        IN  /\ faults' = faults + Count(fail)
            /\ IF fail \/ ~run.ok
               THEN ToCatch(r, "down_rollback", "exec", log) /\ tx' = tx
               ELSE /\ tx' = [tx EXCEPT ![r].schema = run.schema,
                                        ![r].base = schema]
                    /\ pc' = [pc EXCEPT ![r] = "down_delete"]
                    /\ cur' = [cur EXCEPT
                         ![r].log = log,
                         ![r].ran = Append(@, CurrentFile(r).downSql)]
    /\ UNCHANGED <<dir, tableExists, records, schema, prev, client, live,
                   ncalls, edits>>

\* a DELETE that fails when there is no row of the version
DeleteOk_RowThere(version) ==
    tableExists /\ version \in VersionsOf(records)

\* whether DELETE FROM dbuddy_migrations WHERE version = $1 succeeds: it
\* needs the table, not a row to delete
DeleteOk(version) == tableExists

\* lines 301-304: await client.query('DELETE FROM dbuddy_migrations ...')
DownDelete(r) ==
    /\ pc[r] = "down_delete"
    /\ ~DeleteWaits(r, Current(r).version)
    /\ \E fail \in Fails :
        /\ faults' = faults + Count(fail)
        /\ IF fail \/ ~DeleteOk(Current(r).version)
           THEN ToCatch(r, "down_rollback", "delete", cur[r].log)
                /\ tx' = tx
           ELSE LET rows == {Current(r).version} \cap VersionsOf(records)
                IN  /\ tx' = [tx EXCEPT ![r].del = @ \cup rows]
                    /\ pc' = [pc EXCEPT ![r] = "down_commit"]
                    /\ cur' = [cur EXCEPT ![r].deleted = @ \cup rows]
    /\ UNCHANGED <<dir, tableExists, records, schema, prev, client, live,
                   ncalls, edits>>

\* lines 306-307 and 312-316: await client.query('COMMIT'), release the
\* client and go on to the next row that has a file definition
DownCommit(r) ==
    /\ pc[r] = "down_commit"
    /\ \E fail \in Fails :
        /\ faults' = faults + Count(fail)
        /\ IF fail
           THEN /\ ToCatch(r, "down_rollback", "commit", cur[r].log)
                /\ UNCHANGED <<schema, records, tx, client, live>>
           ELSE LET next == NextWithFile(cur[r].batch, cur[r].defs,
                                         cur[r].idx + 1)
                    done == next > Len(cur[r].batch)
                IN  /\ Committed(r)
                    /\ EndTx(r)
                    /\ Release(r)
                    /\ live' = live \ {Current(r).version}
                    /\ cur' = [cur EXCEPT
                         ![r].log = Append(@, Event("commit",
                                                    Current(r).version,
                                                    Current(r).name))
                                    \o SkipLog(cur[r].batch, cur[r].idx + 1,
                                               next),
                         ![r].idx = next,
                         ![r].result = IF done THEN "ok" ELSE @]
                    /\ pc' = [pc EXCEPT ![r] =
                                IF done THEN "idle" ELSE "down_connect"]
    /\ UNCHANGED <<dir, tableExists, prev, ncalls, edits>>

\* a catch block that commits what the transaction has done so far
DownRollback_KeepsSchema(r) ==
    /\ pc[r] = "down_rollback"
    /\ \E fail \in Fails :
        /\ faults' = faults + Count(fail)
        /\ schema' = IF tx[r].open THEN tx[r].schema ELSE schema
        /\ EndTx(r)
        /\ Release(r)
        /\ cur' = [cur EXCEPT
             ![r].log = Append(@, Event("rollback", Current(r).version,
                                        Current(r).name)),
             ![r].result = "rejected"]
        /\ pc' = [pc EXCEPT ![r] = "idle"]
    /\ UNCHANGED <<dir, tableExists, records, prev, live, ncalls, edits>>

\* lines 308-314: await client.query('ROLLBACK'), then throw; the finally
\* block releases the client
DownRollback(r) ==
    /\ pc[r] = "down_rollback"
    /\ \E fail \in Fails :
        /\ faults' = faults + Count(fail)
        /\ EndTx(r)
        /\ Release(r)
        /\ cur' = [cur EXCEPT
             ![r].log = Append(@, Event("rollback", Current(r).version,
                                        Current(r).name)),
             ![r].rollback = IF fail THEN "failed" ELSE "done",
             ![r].result = "rejected"]
        /\ pc' = [pc EXCEPT ![r] = "idle"]
    /\ UNCHANGED <<dir, tableExists, records, schema, prev, live, ncalls,
                   edits>>

(***************************************************************************)
(* The environment and the specification.                                  *)
(***************************************************************************)
\* the files of the migrations directory are rewritten (a checkout, an
\* edit, a deletion).  An operation reads the directory once, when it
\* starts, so a rewrite while one runs has the effect of one after it.
ChangeDir ==
    /\ edits < MaxEdits
    /\ \A r \in Instances : pc[r] = "idle"
    /\ \E d \in Dirs \ {dir} : dir' = d
    /\ edits' = edits + 1
    /\ UNCHANGED <<tableExists, records, schema, pc, cur, prev, tx, client,
                   live, faults, ncalls>>

Next ==
    \/ ChangeDir
    \/ \E r \in Runners :
        \/ initialize(r)
        \/ getStatus(r)
        \/ \E target \in Targets, dryRun \in BOOLEAN :
              migrateUp(r, target, dryRun)
        \/ UpConnect(r)
        \/ UpBegin(r)
        \/ UpExec(r)
        \/ UpInsert(r)
        \/ UpCommit(r)
        \/ UpRollback(r)
        \/ \E target \in Targets, dryRun \in BOOLEAN :
              migrateDown(r, target, dryRun)
        \/ DownConnect(r)
        \/ DownBegin(r)
        \/ DownExec(r)
        \/ DownDelete(r)
        \/ DownCommit(r)
        \/ DownRollback(r)

Spec == Init /\ [][Next]_vars

\* the runner's operations with generateMigration among them
NextGen ==
    \/ Next
    \/ \E r \in Runners, name \in Names, now \in Instants :
          generateMigration(r, name, now)

SpecGen == Init /\ [][NextGen]_vars

(***************************************************************************)
(* Two runner instances on one database.                                   *)
(***************************************************************************)
\* the directory after generateMigration('add_tags') in an empty one
DirNew ==
    LET version == TimestampVersion(Instant(2024, 1, 1, 12, 0, 0))
    IN  <<File(version, "add_tags", "up", UpTemplate("add_tags")),
          File(version, "add_tags", "down", DownTemplate("add_tags"))>>

\* the schema after the upSql of each definition has run, in order
RECURSIVE SchemaAfter(_, _)
SchemaAfter(defs, sch) ==
    IF defs = <<>> THEN sch
    ELSE SchemaAfter(Tail(defs), ExecSql(Head(defs).upSql, sch).schema)

\* the two instances start on a database in which nothing is applied, or
\* on one in which a migrateUp() has applied every migration of the
\* directory
InitTwo ==
    /\ dir \in {DirTwo, DirNew}
    /\ tableExists \in BOOLEAN
    /\ \E done \in {<<>>} \cup (IF tableExists
                                  THEN {loadMigrationFiles(dir)} ELSE {}) :
          /\ records = {NewRow(done[i]) : i \in 1..Len(done)}
          /\ schema = SchemaAfter(done, {})
          /\ live = {done[i].version : i \in 1..Len(done)}
    /\ pc = [r \in Instances |-> "idle"]
    /\ cur = [r \in Instances |-> NoCall]
    /\ prev = [r \in Instances |-> NoCall]
    /\ tx = [r \in Instances |-> NoTx]
    /\ client = [r \in Instances |-> FALSE]
    /\ faults = 0
    /\ ncalls = 0
    /\ edits = 0

\* the continuation of an operation that awaits a database call
Step(r) ==
    \/ UpConnect(r) \/ UpBegin(r) \/ UpExec(r) \/ UpInsert(r)
    \/ UpCommit(r) \/ UpRollback(r)
    \/ DownConnect(r) \/ DownBegin(r) \/ DownExec(r) \/ DownDelete(r)
    \/ DownCommit(r) \/ DownRollback(r)

\* every database call returns or fails, and the operation that awaits it
\* goes on
FairSpec == Spec /\ \A r \in Runners : WF_vars(Step(r))

\* each of the two instances runs one operation, migrateUp or migrateDown,
\* at whatever point of the other's
NextTwo ==
    \E r \in Instances :
        \/ \E target \in Targets, dryRun \in BOOLEAN :
              cur[r].op = "none" /\ migrateUp(r, target, dryRun)
        \/ \E target \in Targets, dryRun \in BOOLEAN :
              cur[r].op = "none" /\ migrateDown(r, target, dryRun)
        \/ Step(r)

SpecTwo == InitTwo /\ [][NextTwo]_vars

(***************************************************************************)
(* A database that has migrations applied when the runner is constructed.  *)
(***************************************************************************)
\* add_users and add_posts as they were applied, add_tags with a lower
\* version added afterwards (a branch merged late), and the down file of
\* add_users emptied since: it is there and has no content
DirLate ==
    <<File(V1, "add_tags", "up", CreateTags),
      File(V1, "add_tags", "down", DropTags),
      File(V2, "add_users", "up", CreateUsers),
      File(V2, "add_users", "down", <<>>),
      File(V3, "add_posts", "up", CreatePosts),
      File(V3, "add_posts", "down", DropPosts)>>

\* the definitions the applied migrations of DirLate were applied from
AppliedLate ==
    <<[version |-> V1, name |-> "add_tags",
       upSql |-> CreateTags, downSql |-> DropTags],
      [version |-> V2, name |-> "add_users",
       upSql |-> CreateUsers, downSql |-> DropUsers],
      [version |-> V3, name |-> "add_posts",
       upSql |-> CreatePosts, downSql |-> DropPosts]>>

\* the runner starts on DirLate with nothing applied, with add_users and
\* add_posts applied, or with add_tags applied as well; or on DirNew with
\* the generated add_tags applied as it was generated
InitLate ==
    /\ dir \in {DirLate, DirNew}
    /\ tableExists = TRUE
    /\ \E done \in IF dir = DirNew THEN {loadMigrationFiles(DirNew)}
                    ELSE {<<>>, SubSeq(AppliedLate, 2, 3), AppliedLate} :
          /\ records = {NewRow(done[i]) : i \in 1..Len(done)}
          /\ schema = SchemaAfter(done, {})
          /\ live = {done[i].version : i \in 1..Len(done)}
    /\ pc = [r \in Instances |-> "idle"]
    /\ cur = [r \in Instances |-> NoCall]
    /\ prev = [r \in Instances |-> NoCall]
    /\ tx = [r \in Instances |-> NoTx]
    /\ client = [r \in Instances |-> FALSE]
    /\ faults = 0
    /\ ncalls = 0
    /\ edits = 0

\* the operations of the runner on that database, the directory left as
\* it is
NextLate ==
    \E r \in Runners :
        \/ getStatus(r)
        \/ \E target \in Targets, dryRun \in BOOLEAN :
              migrateUp(r, target, dryRun)
        \/ \E target \in Targets, dryRun \in BOOLEAN :
              migrateDown(r, target, dryRun)
        \/ Step(r)

SpecLate == InitLate /\ [][NextLate]_vars

(***************************************************************************)
(* Properties.                                                             *)
(***************************************************************************)
\* the versions an operation committed, by its log
CommittedIn(call) ==
    {call.log[i].version :
        i \in {j \in 1..Len(call.log) : call.log[j].e = "commit"}}

\* the versions whose SQL an operation sent to the database
ExecutedIn(call) ==
    {call.log[i].version :
        i \in {j \in 1..Len(call.log) : call.log[j].e = "exec"}}

\* what getStatus would report for the files the operation read
StatusNow(call) == StatusList(call.defs, OrderByVersion(records))

\* the operation of runner r has returned or rejected
Returned(r) == pc[r] = "idle" /\ cur[r].result \in {"ok", "rejected"}

\* C1: when migrateUp rejects because a migration's upSql or the insert
\* of its tracking record failed, the schema is the one before that
\* migration's transaction, no tracking record has the failing migration's
\* version and getStatus reports the failing migration as pending.
C1_FailedMigrationPending ==
    \A r \in Runners :
        (/\ cur[r].op = "up"
         /\ Returned(r)
         /\ cur[r].result = "rejected"
         /\ cur[r].failedAt \in {"exec", "insert"})
        => /\ schema = cur[r].atSchema
           /\ Current(r).version \notin VersionsOf(records)
           /\ \A i \in 1..Len(cur[r].defs) :
                 cur[r].defs[i].version = Current(r).version
                 => StatusNow(cur[r])[i].status = "pending"

\* C2 (state part): a tracking record for version v exists exactly when an
\* up transaction of v has committed and no down transaction of v has
\* committed since, and no transaction is left open between operations.
C2_RecordIffCommitted ==
    /\ VersionsOf(records) = live
    /\ \A r \in Runners : pc[r] = "idle" => ~tx[r].open

\* C2 (step part): the schema never changes without the tracking records
\* changing in the same step, and the records change only in the COMMIT of
\* a transaction that ran the whole SQL of the version it records (up) or
\* whose record it deletes (down).
C2_NoHalfAppliedStep ==
    /\ schema' # schema => VersionsOf(records') # VersionsOf(records)
    /\ records' # records =>
         \E r \in Runners :
            \/ /\ pc[r] = "up_commit"
               /\ LET m == Current(r)
                      run == ExecSql(m.upSql, schema)
                  IN  /\ run.ok
                      /\ schema' = run.schema
                      /\ m.version \notin VersionsOf(records)
                      /\ records' = records \cup {NewRow(m)}
            \/ /\ pc[r] = "down_commit"
               /\ LET v == Current(r).version
                      run == ExecSql(CurrentFile(r).downSql, schema)
                  IN  /\ run.ok
                      /\ schema' = run.schema
                      /\ v \in VersionsOf(records)
                      /\ records' = {row \in records : row.version # v}

C3_AscendingOrder ==
    \A r \in Runners :
        cur[r].op = "up" =>
            \A j \in 1..Len(cur[r].log) :
                cur[r].log[j].e = "exec" =>
                    \A k \in 1..Len(cur[r].batch) :
                        StrLess(cur[r].batch[k].version, cur[r].log[j].version)
                        => \E i \in 1..(j - 1) :
                              cur[r].log[i] = Event("commit",
                                                    cur[r].batch[k].version,
                                                    cur[r].batch[k].name)

\* add_posts is listed before add_users, and add_users was committed
\* before the SQL of add_posts was executed
C3_Witness ==
    \E r \in Runners :
        /\ cur[r].op = "up"
        /\ edits = 0
        /\ dir = DirTwo
        /\ Len(cur[r].log) >= 3
        /\ cur[r].log[2] = Event("commit", V1, "add_users")
        /\ cur[r].log[3] = Event("exec", V2, "add_posts")

\* the (version, name) pairs an operation committed
CommittedMigrations(call) ==
    {<<call.log[i].version, call.log[i].name>> :
        i \in {j \in 1..Len(call.log) : call.log[j].e = "commit"}}

\* the definitions the operation read that had no tracking record when it
\* started
PendingAtStart(call) ==
    {m \in SeqRange(call.defs) : m.version \notin VersionsOf(call.startRecords)}

\* C4: when a migration of a migrateUp batch fails, every batch migration
\* with a lower version is committed and recorded, the failing one and
\* every later one of the batch have no tracking record (are pending), and
\* no SQL of a later migration is executed.
C4_BatchStopsAtFailure ==
    \A r \in Runners :
        (/\ cur[r].op = "up"
         /\ Returned(r)
         /\ cur[r].result = "rejected"
         /\ cur[r].failedAt \notin {"none", "connect"})
        => /\ \A i \in 1..Len(cur[r].batch) :
                 StrLess(cur[r].batch[i].version, Current(r).version)
                 => /\ cur[r].batch[i].version \in CommittedIn(cur[r])
                    /\ cur[r].batch[i].version \in VersionsOf(records)
           /\ \A i \in cur[r].idx..Len(cur[r].batch) :
                 cur[r].batch[i].version \notin VersionsOf(records)
           /\ \A i \in (cur[r].idx + 1)..Len(cur[r].batch) :
                 \A j \in 1..Len(cur[r].log) :
                     cur[r].log[j] # Event("exec", cur[r].batch[i].version,
                                           cur[r].batch[i].name)

\* C5: a migrateUp or migrateDown call in which a database call of a
\* migration's transaction failed (getClient, BEGIN, the migration SQL, the
\* insert or delete of the record, COMMIT) never returns successfully: it
\* rejects, after a ROLLBACK whenever the failure was inside the try block,
\* with no transaction left open.
C5_FailureRejects ==
    \A r \in Runners :
        cur[r].op \in {"up", "down"} =>
            /\ cur[r].failed => cur[r].result # "ok"
            /\ (Returned(r) /\ cur[r].failed) =>
                  /\ cur[r].result = "rejected"
                  /\ ~tx[r].open
                  /\ cur[r].failedAt # "connect" =>
                        /\ cur[r].log # <<>>
                        /\ cur[r].log[Len(cur[r].log)].e = "rollback"
                        /\ cur[r].log[Len(cur[r].log)].version
                              = Current(r).version

\* a migrateDown that rejected because its COMMIT failed
C5_Witness ==
    \E r \in Runners :
        /\ cur[r].op = "down"
        /\ Returned(r)
        /\ cur[r].result = "rejected"
        /\ cur[r].failedAt = "commit"

\* C6: a migrateUp with dryRun = true never leaves the idle state, opens no
\* transaction and takes no client for one; the tracking table, its records,
\* the schema objects and what getStatus reports are as before the call.
C6_DryRunChangesNothing ==
    \A r \in Runners :
        (cur[r].op = "up" /\ cur[r].dryRun) =>
            /\ pc[r] = "idle"
            /\ ~tx[r].open
            /\ ~client[r]
            /\ records = cur[r].startRecords
            /\ schema = cur[r].startSchema
            /\ tableExists = cur[r].startTable
            /\ CommittedIn(cur[r]) = {}
            /\ StatusNow(cur[r])
                  = StatusList(cur[r].defs,
                               OrderByVersion(cur[r].startRecords))

\* a dry run that listed two pending migrations
C6_Witness ==
    \E r \in Runners :
        /\ cur[r].op = "up"
        /\ cur[r].dryRun
        /\ cur[r].result = "ok"
        /\ Len(cur[r].batch) = 2
        /\ Len(cur[r].log) = 2

\* C7: starting with no applied migrations, a successful migrateUp()
\* followed by a successful migrateDown() with no target, over the same
\* files, leaves no tracking record, the schema as it was, every migration
\* reported pending, and has committed the down of each migration the
\* migrateUp applied.
C7_RoundTrip ==
    \A r \in Runners :
        (/\ cur[r].op = "down"
         /\ cur[r].target = NoTarget
         /\ ~cur[r].dryRun
         /\ Returned(r)
         /\ cur[r].result = "ok"
         /\ prev[r].op = "up"
         /\ prev[r].target = NoTarget
         /\ ~prev[r].dryRun
         /\ prev[r].result = "ok"
         /\ prev[r].startRecords = {}
         /\ prev[r].defs = cur[r].defs)
        => /\ records = {}
           /\ schema = prev[r].startSchema
           /\ CommittedIn(cur[r]) = CommittedIn(prev[r])
           /\ \A i \in 1..Len(cur[r].defs) :
                 StatusNow(cur[r])[i].status = "pending"

\* the pending migrations a migrateUp with target t is to apply
UpTo(call, t) ==
    {<<m.version, m.name>> :
        m \in {p \in PendingAtStart(call) : StrLeq(p.version, t)}}

\* the pending migrations a migrateUp with target t is to leave alone
Above(call, t) ==
    {<<m.version, m.name>> :
        m \in {p \in PendingAtStart(call) : StrGreater(p.version, t)}}

\* a migrateUp call that was given a target, ran for real and succeeded
UpWithTargetDone(call) ==
    /\ call.op = "up"
    /\ ~call.dryRun
    /\ call.result = "ok"
    /\ call.target # NoTarget

\* what a successful migrateUp({target: t}) has done
AppliedExactlyUpTo(call) ==
    /\ CommittedMigrations(call) = UpTo(call, call.target)
    /\ \A m \in Above(call, call.target) : m[1] \notin CommittedIn(call)

\* what a successful migrateUp() after a migrateUp({target: t}) has done
AppliedTheRemainder(call, before) ==
    /\ CommittedMigrations(call) = Above(before, before.target)
    /\ CommittedMigrations(call) \cap CommittedMigrations(before) = {}
    /\ \A i \in 1..Len(call.defs) : call.defs[i].version \in VersionsOf(records)

\* no migrateUp commits a version that had a tracking record, or one
\* version twice
NeverReapplied(call) ==
    /\ CommittedIn(call) \cap VersionsOf(call.startRecords) = {}
    /\ \A i, j \in 1..Len(call.log) :
          (/\ call.log[i].e = "commit"
           /\ call.log[j].e = "commit"
           /\ call.log[i].version = call.log[j].version) => i = j

\* C8 as claimed: a successful migrateUp({target: t}), for every string t,
\* commits exactly the pending migrations with version <= t and none with a
\* greater version; a later successful migrateUp() over the same files
\* commits exactly the rest; no migrateUp commits a version that had a
\* tracking record.
C8_TargetExact ==
    \A r \in Runners :
        /\ (UpWithTargetDone(cur[r]) /\ Returned(r))
              => AppliedExactlyUpTo(cur[r])
        /\ (/\ cur[r].op = "up" /\ ~cur[r].dryRun /\ cur[r].result = "ok"
            /\ Returned(r)
            /\ cur[r].target = NoTarget
            /\ UpWithTargetDone(prev[r])
            /\ prev[r].defs = cur[r].defs)
              => AppliedTheRemainder(cur[r], prev[r])
        /\ cur[r].op = "up" => NeverReapplied(cur[r])

\* C8 amended: the same for every non-empty target t; an empty-string
\* target is falsy and is treated as no target.
C8_NonEmptyTargetExact ==
    \A r \in Runners :
        /\ (UpWithTargetDone(cur[r]) /\ Returned(r) /\ Truthy(cur[r].target))
              => AppliedExactlyUpTo(cur[r])
        /\ (/\ cur[r].op = "up" /\ ~cur[r].dryRun /\ cur[r].result = "ok"
            /\ Returned(r)
            /\ cur[r].target = NoTarget
            /\ UpWithTargetDone(prev[r]) /\ Truthy(prev[r].target)
            /\ prev[r].defs = cur[r].defs)
              => AppliedTheRemainder(cur[r], prev[r])
        /\ cur[r].op = "up" => NeverReapplied(cur[r])

\* migrateUp({target: V1}) applied add_users alone, and the migrateUp()
\* after it applied add_posts
C8_Witness ==
    \E r \in Runners :
        /\ cur[r].op = "up" /\ cur[r].target = NoTarget /\ Returned(r)
        /\ cur[r].result = "ok"
        /\ prev[r].op = "up" /\ prev[r].target = V1 /\ prev[r].result = "ok"
        /\ CommittedMigrations(prev[r]) = {<<V1, "add_users">>}
        /\ CommittedMigrations(cur[r]) = {<<V2, "add_posts">>}

\* a migrateDown call that was given a target, ran for real and succeeded
DownWithTargetDone(r) ==
    /\ cur[r].op = "down"
    /\ ~cur[r].dryRun
    /\ cur[r].target # NoTarget
    /\ Returned(r)
    /\ cur[r].result = "ok"

\* the records with version <= t are in place and their SQL was not run
KeptUpTo(call, t) ==
    /\ {row \in call.startRecords : ~StrGreater(row.version, t)}
          \subseteq records
    /\ \A v \in ExecutedIn(call) : StrGreater(v, t)

\* the versions rolled back have no record and are reported pending
RolledBackPending(call) ==
    /\ records = {row \in call.startRecords :
                     row.version \notin CommittedIn(call)}
    /\ \A i \in 1..Len(call.defs) :
          call.defs[i].version \in CommittedIn(call)
          => StatusNow(call)[i].status = "pending"

C10_NoTargetRollsBackAll ==
    \A r \in Runners :
        (cur[r].op = "down" /\ cur[r].target = NoTarget) =>
            /\ SeqRange(cur[r].batch) = cur[r].startRecords
            /\ (/\ ~cur[r].dryRun
                /\ Returned(r)
                /\ cur[r].result = "ok"
                /\ \A v \in VersionsOf(cur[r].startRecords) :
                      FileMigration(cur[r].defs, v) # <<>>)
                  => records = {}

\* a migrateDown call without target that ran for real and succeeded
DownNoTargetDone(r) ==
    /\ cur[r].op = "down"
    /\ ~cur[r].dryRun
    /\ cur[r].target = NoTarget
    /\ Returned(r)
    /\ cur[r].result = "ok"

\* the greatest of a non-empty set of versions
MaxVersion(vs) == CHOOSE v \in vs : \A w \in vs : StrLeq(w, v)

C12_UpCreatesTable ==
    \A r \in Runners :
        (/\ cur[r].op = "up"
         /\ ~cur[r].dryRun
         /\ ~cur[r].startTable
         /\ cur[r].batch # <<>>
         /\ Returned(r)
         /\ faults = 0)
        => /\ tableExists
           /\ cur[r].result = "ok" =>
                 \A i \in 1..Len(cur[r].defs) :
                     StatusNow(cur[r])[i].status = "applied"

\* C13: after a getStatus call on a database without the tracking table
\* (no database call failing by the environment's doing) the tracking
\* table exists, with no record in it.
C13_StatusCreatesTable ==
    \A r \in Runners :
        (/\ cur[r].op = "status"
         /\ ~cur[r].startTable
         /\ Returned(r)
         /\ faults = 0)
        => tableExists /\ records = {}

\* C14: reading the applied records when the tracking table does not exist
\* yields the empty sequence, not an error: getStatus succeeds and reports
\* every discovered migration as pending, and migrateDown succeeds and
\* rolls nothing back.
C14_MissingTableReadsEmpty ==
    \A r \in Runners :
        ~cur[r].startTable =>
            /\ cur[r].op \in {"status", "up", "down"} => cur[r].applied = <<>>
            /\ cur[r].op = "status" =>
                  /\ cur[r].result = "ok"
                  /\ Len(cur[r].batch) = Len(cur[r].defs)
                  /\ \A i \in 1..Len(cur[r].batch) :
                        /\ cur[r].batch[i].version = cur[r].defs[i].version
                        /\ cur[r].batch[i].status = "pending"
            /\ cur[r].op = "down" =>
                  /\ pc[r] = "idle"
                  /\ cur[r].result = "ok"
                  /\ cur[r].log = <<>>
                  /\ records = cur[r].startRecords
                  /\ schema = cur[r].startSchema

\* getStatus without the tracking table listed two pending migrations
C14_Witness ==
    \E r \in Runners :
        /\ cur[r].op = "status"
        /\ ~cur[r].startTable
        /\ ~cur[r].readFailed
        /\ cur[r].result = "ok"
        /\ Len(cur[r].batch) = 2
        /\ \A i \in 1..2 : cur[r].batch[i].status = "pending"

\* C15: getStatus returns one entry per discovered definition, in
\* ascending version order, applied with an appliedAt exactly when a
\* tracking record with the entry's version exists and pending without
\* appliedAt otherwise; so every entry is pending before any apply, and a
\* record without a file definition gives no entry.
C15_StatusMatchesRecords ==
    \A r \in Runners :
        (cur[r].op = "status" /\ Returned(r)) =>
            /\ cur[r].result = "ok"
            /\ Len(cur[r].batch) = Len(cur[r].defs)
            /\ \A i \in 1..Len(cur[r].batch) :
                  LET entry == cur[r].batch[i]
                  IN  /\ entry.version = cur[r].defs[i].version
                      /\ entry.name = cur[r].defs[i].name
                      /\ \A j \in 1..(i - 1) :
                            StrLeq(cur[r].batch[j].version, entry.version)
                      /\ IF entry.version \in VersionsOf(records)
                         THEN /\ entry.status = "applied"
                              /\ entry.appliedAt # "undefined"
                         ELSE /\ entry.status = "pending"
                              /\ entry.appliedAt = "undefined"

\* C16: in a migrateDown that runs for real, a selected record without a
\* file definition is skipped with a warning: no SQL is executed for it,
\* its record stays, it is never the migration the call fails at, and the
\* loop goes on, so a call that succeeds has rolled back every selected
\* record that has a file definition.
C16_SkipsMissingFile ==
    \A r \in Runners :
        (cur[r].op = "down" /\ ~cur[r].dryRun) =>
            /\ \A i \in 1..Len(cur[r].batch) :
                  FileMigration(cur[r].defs, cur[r].batch[i].version) = <<>>
                  => /\ cur[r].batch[i].version \notin ExecutedIn(cur[r])
                     /\ cur[r].batch[i].version \notin CommittedIn(cur[r])
                     /\ cur[r].batch[i] \in records
                     /\ i < cur[r].idx =>
                           \E j \in 1..Len(cur[r].log) :
                               cur[r].log[j]
                                 = Event("skip", cur[r].batch[i].version,
                                         cur[r].batch[i].name)
            /\ cur[r].failed =>
                  /\ cur[r].idx \in 1..Len(cur[r].batch)
                  /\ FileMigration(cur[r].defs, Current(r).version) # <<>>
            /\ (Returned(r) /\ cur[r].result = "ok") =>
                  \A i \in 1..Len(cur[r].batch) :
                      FileMigration(cur[r].defs, cur[r].batch[i].version)
                          # <<>>
                      => cur[r].batch[i].version \in CommittedIn(cur[r])

\* a migrateDown skipped a version without files and then rolled back a
\* lower version
C16_Witness ==
    \E r \in Runners :
        /\ cur[r].op = "down"
        /\ Returned(r)
        /\ cur[r].result = "ok"
        /\ \E i, j \in 1..Len(cur[r].log) :
              /\ i < j
              /\ cur[r].log[i].e = "skip"
              /\ cur[r].log[j].e = "commit"
              /\ StrLess(cur[r].log[j].version, cur[r].log[i].version)

\* C17: migrateDown goes through the selected records in strictly
\* descending version order: when the downSql of a version is sent to the
\* database, every selected record with a greater version that has a file
\* definition has been rolled back and committed before.
C17_DescendingOrder ==
    \A r \in Runners :
        cur[r].op = "down" =>
            /\ \A i, k \in 1..Len(cur[r].batch) :
                  i < k => StrGreater(cur[r].batch[i].version,
                                      cur[r].batch[k].version)
            /\ \A j \in 1..Len(cur[r].log) :
                  cur[r].log[j].e = "exec" =>
                      \A k \in 1..Len(cur[r].batch) :
                          (/\ StrGreater(cur[r].batch[k].version,
                                         cur[r].log[j].version)
                           /\ FileMigration(cur[r].defs,
                                            cur[r].batch[k].version) # <<>>)
                          => \E i \in 1..(j - 1) :
                                cur[r].log[i]
                                  = Event("commit", cur[r].batch[k].version,
                                          cur[r].batch[k].name)

\* add_posts was rolled back and committed before the downSql of add_users
\* was executed
C17_Witness ==
    \E r \in Runners :
        /\ cur[r].op = "down"
        /\ Len(cur[r].log) >= 3
        /\ cur[r].log[1] = Event("exec", V2, "add_posts")
        /\ cur[r].log[2] = Event("commit", V2, "add_posts")
        /\ cur[r].log[3] = Event("exec", V1, "add_users")

\* C18: when a transaction of migrateDown fails (BEGIN, the downSql, the
\* DELETE of the record or COMMIT), it is rolled back and the call stops:
\* schema and records are those before that transaction, the failing
\* version keeps its record, the versions rolled back earlier in the call
\* stay rolled back, and no later (lower) version of the batch is touched.
C18_DownStopsAtFailure ==
    \A r \in Runners :
        (/\ cur[r].op = "down"
         /\ Returned(r)
         /\ cur[r].result = "rejected"
         /\ cur[r].failedAt \notin {"none", "connect"})
        => /\ schema = cur[r].atSchema
           /\ records = cur[r].atRecords
           /\ ~tx[r].open
           /\ Current(r) \in records
           /\ Current(r).version \notin CommittedIn(cur[r])
           /\ \A v \in CommittedIn(cur[r]) : v \notin VersionsOf(records)
           /\ \A i \in (cur[r].idx + 1)..Len(cur[r].batch) :
                 /\ cur[r].batch[i] \in records
                 /\ cur[r].batch[i].version \notin ExecutedIn(cur[r])
                 /\ StrLess(cur[r].batch[i].version, Current(r).version)

\* add_posts was rolled back, then the DELETE of the record of add_users
\* failed: test_users and its record are still there
C18_Witness ==
    \E r \in Runners :
        /\ cur[r].op = "down"
        /\ Returned(r)
        /\ cur[r].result = "rejected"
        /\ cur[r].failedAt = "delete"
        /\ CommittedIn(cur[r]) = {V2}
        /\ VersionsOf(records) = {V1}
        /\ schema = {"test_users"}

\* C19: initialize is idempotent: in any state, a call that succeeds leaves
\* the tracking table present, no call removes or changes a tracking
\* record or a schema object, and a call on a database that has the table
\* changes nothing at all.
C19_InitializeIdempotent ==
    \A r \in Runners :
        cur[r].op = "init" =>
            /\ Returned(r)
            /\ cur[r].result = "ok" => tableExists
            /\ cur[r].startTable => tableExists
            /\ records = cur[r].startRecords
            /\ schema = cur[r].startSchema

\* initialize succeeded on a database that had the table and a record
C19_Witness ==
    \E r \in Runners :
        /\ cur[r].op = "init"
        /\ cur[r].result = "ok"
        /\ cur[r].startTable
        /\ cur[r].startRecords # {}
        /\ records = cur[r].startRecords

\* the (version, name) keys of the well-named files of a directory
KeysIn(files) ==
    {KeyOf(files[i]) : i \in {j \in 1..Len(files) : Matches(files[j])}}

\* the directory has a file of that key and direction
HasFile(files, key, direction) ==
    \E i \in 1..Len(files) :
        /\ Matches(files[i])
        /\ KeyOf(files[i]) = key
        /\ files[i].direction = direction

\* the keys for which only the up file or only the down file is present
IncompleteKeys(files) ==
    {key \in KeysIn(files) :
        ~(HasFile(files, key, "up") /\ HasFile(files, key, "down"))}

\* the (version, name) pairs of a list of definitions or status entries
PairsOf(list) == {<<list[i].version, list[i].name>> : i \in 1..Len(list)}

\* C20: a migration of which only the up file or only the down file is
\* present is left out of discovery and fails nothing: it is no
\* definition, getStatus has no entry for it, migrateUp never executes or
\* commits it, and the migrations with both files (not empty) are
\* discovered all the same.
C20_IncompleteExcluded ==
    \A r \in Runners :
        cur[r].op \in {"status", "up", "down"} =>
            /\ \A key \in IncompleteKeys(cur[r].files) :
                  /\ key \notin PairsOf(cur[r].defs)
                  /\ cur[r].op \in {"status", "up"} =>
                        key \notin PairsOf(cur[r].batch)
                  /\ cur[r].op = "up" =>
                        \A j \in 1..Len(cur[r].log) :
                            <<cur[r].log[j].version, cur[r].log[j].name>>
                                # key
            /\ \A key \in KeysIn(cur[r].files) \ IncompleteKeys(cur[r].files) :
                  (/\ ContentOf(cur[r].files, key, "up") # <<>>
                   /\ ContentOf(cur[r].files, key, "down") # <<>>)
                  => key \in PairsOf(cur[r].defs)
            /\ cur[r].op = "status" => cur[r].result = "ok"

\* migrateUp over add_users and the up file of add_posts applied add_users
\* and returned
C20_Witness ==
    \E r \in Runners :
        /\ cur[r].op = "up"
        /\ ~cur[r].dryRun
        /\ Returned(r)
        /\ cur[r].result = "ok"
        /\ IncompleteKeys(cur[r].files) = {<<V2, "add_posts">>}
        /\ CommittedMigrations(cur[r]) = {<<V1, "add_users">>}
        /\ schema = {"test_users"}

\* C21: in every reachable state, after any sequence of migrateUp and
\* migrateDown calls, successful or failed, the tracking table holds at
\* most one record per version.
C21_OneRecordPerVersion ==
    \A a, b \in records : a.version = b.version => a = b

\* a second definition of an applied version was tried and its INSERT was
\* refused: the version still has its one record
C21_Witness ==
    \E r \in Runners :
        /\ cur[r].op = "up"
        /\ Returned(r)
        /\ cur[r].result = "rejected"
        /\ cur[r].failedAt = "insert"
        /\ ~cur[r].readFailed
        /\ Current(r).version \in VersionsOf(records)
        /\ Current(r).name \notin {row.name : row \in records}

\* C22: a version identifies one migration: the definitions discovery
\* returns to getStatus, migrateUp or migrateDown never hold two
\* definitions with the same version.
C22_VersionsUnique ==
    \A r \in Runners :
        \A i, j \in 1..Len(cur[r].defs) :
            cur[r].defs[i].version = cur[r].defs[j].version => i = j

\* the rows read, with their checksum blanked
Scrub(rows) == [i \in 1..Len(rows) |-> [rows[i] EXCEPT !.checksum = <<>>]]

\* the record of a version holds a checksum other than that of the files
\* the call read for the version
ChecksumDiffers(call, row) ==
    \E i \in 1..Len(call.defs) :
        /\ call.defs[i].version = row.version
        /\ call.defs[i].name = row.name
        /\ row.checksum # calculateChecksum(call.defs[i].upSql,
                                            call.defs[i].downSql)

\* a record that appears holds the checksum of the files of the migration
\* being applied, and no record that stays changes
C23_ChecksumWrittenOnce ==
    /\ \A row \in records' \ records :
          \E r \in Runners :
              /\ pc[r] = "up_commit"
              /\ row.version = Current(r).version
              /\ row.name = Current(r).name
              /\ row.checksum = calculateChecksum(Current(r).upSql,
                                                  Current(r).downSql)
    /\ \A row \in records \ records' :
          row.version \notin VersionsOf(records')

\* what getStatus reports and what migrateUp and migrateDown select is
\* what they would report and select with every checksum blanked;
\* getStatus never fails, and a migrateUp or migrateDown rejects only
\* after a database call of a transaction failed
C23_ChecksumNeverRead ==
    \A r \in Runners :
          /\ cur[r].op = "status" =>
                /\ cur[r].result = "ok"
                /\ cur[r].batch = StatusList(cur[r].defs, Scrub(cur[r].applied))
          /\ cur[r].op = "up" =>
                cur[r].batch = PendingMigrations(cur[r].defs,
                                                 Scrub(cur[r].applied),
                                                 cur[r].target)
          /\ cur[r].op = "down" =>
                Scrub(cur[r].batch) = MigrationsToRollback(Scrub(cur[r].applied),
                                                           cur[r].target)
          /\ (cur[r].op \in {"up", "down"} /\ cur[r].result = "rejected") =>
                cur[r].failed /\ cur[r].failedAt # "none"

NextStatus == StatusList(loadMigrationFiles(dir), getAppliedMigrations(FALSE))

\* C24: generateMigration(name) touches the file system only: discovery
\* recognises the pair it wrote, so the getStatus that follows lists the
\* returned version with the given name as pending, and the tracking
\* records and the schema are those before the call.
C24_GenerateAddsPending ==
    \A r \in Runners :
        (cur[r].op = "generate" /\ dir = cur[r].files) =>
            /\ \E i \in 1..Len(NextStatus) :
                  /\ NextStatus[i].version = cur[r].batch[1].version
                  /\ NextStatus[i].name = cur[r].batch[1].name
                  /\ NextStatus[i].status = "pending"
            /\ records = cur[r].startRecords
            /\ schema = cur[r].startSchema
            /\ tableExists = cur[r].startTable

\* the step is a getStatus call of runner r
StatusStep(r) ==
    /\ pc[r] = "idle"
    /\ ncalls' = ncalls + 1
    /\ cur'[r].id = ncalls'
    /\ cur'[r].op = "status"

\* what a getStatus step leaves as it was: the tracking records and the
\* schema objects, and with them what is applied
C25_StatusStepReadsOnly ==
    \A r \in Runners :
        StatusStep(r) =>
            /\ records' = records
            /\ schema' = schema
            /\ live' = live

\* C25: getStatus never changes which migrations are applied: in any
\* state, the tracking records and the schema objects are the same before
\* and after a getStatus call.
C25_StatusChangesNothing == [][C25_StatusStepReadsOnly]_vars

\* getStatus ran with a migration applied and reported it; its record and
\* its table are in place
C25_Witness ==
    \E r \in Runners :
        /\ cur[r].op = "status"
        /\ cur[r].result = "ok"
        /\ cur[r].startRecords # {}
        /\ cur[r].startSchema # {}
        /\ \E i \in 1..Len(cur[r].batch) : cur[r].batch[i].status = "applied"
        /\ records = cur[r].startRecords
        /\ schema = cur[r].startSchema

\* where an operation stands while it holds a client
HoldsClient ==
    {"up_begin", "up_exec", "up_insert", "up_commit", "up_rollback",
     "down_begin", "down_exec", "down_delete", "down_commit",
     "down_rollback"}

\* C26: every connection taken for a migration's transaction is released
\* on every exit path: a runner holds a client only inside the try block
\* of a migration, and none once migrateUp or migrateDown has returned or
\* rejected, be it after a COMMIT, after a ROLLBACK or after a ROLLBACK
\* that failed.
C26_ClientReleased ==
    \A r \in Runners :
        /\ client[r] <=> pc[r] \in HoldsClient
        /\ Returned(r) => ~client[r]

\* a migrateUp whose INSERT was refused and whose ROLLBACK failed has
\* rejected and holds no client
C26_Witness ==
    \E r \in Runners :
        /\ cur[r].op = "up"
        /\ Returned(r)
        /\ cur[r].result = "rejected"
        /\ cur[r].failedAt = "insert"
        /\ cur[r].rollback = "failed"
        /\ ~client[r]

\* the batch entries before position idx that the loop did not skip are
\* committed
EarlierCommitted(call) ==
    \A i \in 1..(call.idx - 1) :
        \/ call.batch[i].version \in CommittedIn(call)
        \/ call.op = "down" /\ FileMigration(call.defs,
                                              call.batch[i].version) = <<>>

\* a transaction is opened by the BEGIN of a migration only, on a client
\* held, when no transaction of the call is open
C27_BeginsWhenNoneOpen ==
    \A r \in Runners :
        (tx'[r].open /\ ~tx[r].open)
        => /\ pc[r] \in {"up_begin", "down_begin"}
           /\ client[r]
           /\ EarlierCommitted(cur[r])

\* before the connection of the next migration is taken, the transaction
\* of the previous one is committed and its client released
C27_OneAtATime ==
    \A r \in Runners :
        pc[r] \in {"up_connect", "down_connect", "up_begin", "down_begin"} =>
            /\ ~tx[r].open
            /\ client[r] <=> pc[r] \in {"up_begin", "down_begin"}
            /\ EarlierCommitted(cur[r])

\* C27: within one migrateUp or migrateDown call at most one migration
\* transaction is open at any time: the next migration's transaction
\* begins only after the previous one has committed and its connection
\* has been released.
C27_SequentialTransactions ==
    []C27_OneAtATime /\ [][C27_BeginsWhenNoneOpen]_vars

\* the transaction of the second migration of a batch is open, the first
\* is committed
C27_Witness ==
    \E r \in Runners :
        /\ cur[r].op = "up"
        /\ pc[r] = "up_exec"
        /\ cur[r].idx = 2
        /\ tx[r].open
        /\ client[r]
        /\ cur[r].batch[1].version \in CommittedIn(cur[r])

\* a transaction is ended only by the COMMIT or the ROLLBACK of the
\* runner that began it, on the client it holds
C28_EndedByCommitOrRollback ==
    \A r \in Runners :
        (tx[r].open /\ ~tx'[r].open) =>
            /\ pc[r] \in {"up_commit", "down_commit", "up_rollback",
                           "down_rollback"}
            /\ client[r]

\* no transaction is open on a client that was released, or after the
\* call has ended
C28_NoneLeftOpen ==
    \A r \in Runners : (~client[r] \/ Returned(r)) => ~tx[r].open

DryStep(r) ==
    /\ pc[r] = "idle"
    /\ ncalls' = ncalls + 1
    /\ cur'[r].id = ncalls'
    /\ cur'[r].op \in {"up", "down"}
    /\ cur'[r].dryRun

\* a dry run leaves the database, the directory and everything of the
\* other instance (its operation, its transaction, its client) as they are
C29_DryStepFrame ==
    \A r \in Instances :
        DryStep(r) =>
            /\ UNCHANGED <<dir, tableExists, records, schema, pc, tx, client,
                           live>>
            /\ \A q \in Instances \ {r} :
                  cur'[q] = cur[q] /\ prev'[q] = prev[q]

\* a dry run is over in one step: it holds no client, has no transaction
\* and has executed and committed nothing
DryRunHoldsNothing(r) ==
    /\ pc[r] = "idle"
    /\ ~client[r]
    /\ ~tx[r].open
    /\ \A i \in 1..Len(cur[r].log) : cur[r].log[i].e \in {"dry", "skip"}

\* C29 as claimed: a dry run of migrateUp or migrateDown never acquires a
\* connection, never opens a transaction and never writes, whatever the
\* other instance is doing.
C29_DryRunNeverConnects ==
    \A r \in Instances :
        (cur[r].op \in {"up", "down"} /\ cur[r].dryRun) =>
            /\ DryRunHoldsNothing(r)
            /\ cur[r].conns = 0

\* the dry runs take the one pooled connection of their read, and no more
C29_DryRunReadsOnly ==
    \A r \in Instances :
        (cur[r].op \in {"up", "down"} /\ cur[r].dryRun) =>
            /\ DryRunHoldsNothing(r)
            /\ cur[r].conns = Pooled(cur[r].readFailed)

\* C29 amended: a dry run of migrateUp or migrateDown takes no client for
\* a transaction, opens no transaction and writes nothing; the one
\* connection it uses is the pooled one of its read of the applied
\* records.  At whatever point of another instance's migrateUp or
\* migrateDown it runs, it leaves the database and the other instance's
\* operation, transaction and client unchanged.
C29_DryRunInert == []C29_DryRunReadsOnly /\ [][C29_DryStepFrame]_vars

\* a dry run of migrateDown ran while the other instance's migrateUp was
\* under way, and that migrateUp went on to commit and succeed
C29_Witness ==
    \E r \in Instances, q \in Instances :
        /\ r # q
        /\ cur[r].op = "down"
        /\ cur[r].dryRun
        /\ cur[r].conns = 1
        /\ cur[q].id \in cur[r].during
        /\ cur[q].op = "up"
        /\ Returned(q)
        /\ cur[q].result = "ok"
        /\ CommittedIn(cur[q]) # {}

\* two migrateUp calls of two instances that run for real, the second
\* started while the first was under way
Racing(r, q) ==
    /\ r # q
    /\ cur[r].op = "up" /\ ~cur[r].dryRun
    /\ cur[q].op = "up" /\ ~cur[q].dryRun
    /\ cur[q].id = cur[r].id + 1
    /\ cur[r].id \in cur[q].during

\* the versions both calls found pending
BothPending(r, q) ==
    VersionsOf(SeqRange(cur[r].batch)) \cap VersionsOf(SeqRange(cur[q].batch))

\* the call has rolled back a transaction of version v and rejected
LostRace(call, v) ==
    /\ call.result = "rejected"
    /\ v \in ExecutedIn(call) =>
          \E i \in 1..Len(call.log) :
              call.log[i].e = "rollback" /\ call.log[i].version = v

\* C30: when two instances run migrateUp concurrently and both found a
\* version pending, at most one of them commits its record and its up
\* effects; the other, once it has returned, has rejected with its
\* transaction of that version rolled back; and the tracking table never
\* holds two records of one version.
C30_UniqueVersionArbitrates ==
    /\ \A a, b \in records : a.version = b.version => a = b
    /\ \A r \in Instances, q \in Instances :
          Racing(r, q) =>
              \A v \in BothPending(r, q) :
                  /\ ~(v \in CommittedIn(cur[r]) /\ v \in CommittedIn(cur[q]))
                  /\ (v \in CommittedIn(cur[r]) /\ Returned(q))
                        => LostRace(cur[q], v)
                  /\ (v \in CommittedIn(cur[q]) /\ Returned(r))
                        => LostRace(cur[r], v)

\* both instances ran the generated add_tags, whose upSql creates nothing:
\* one committed it, the INSERT of the other was refused and rolled back
C30_Witness ==
    \E r \in Instances, q \in Instances :
        /\ Racing(r, q)
        /\ \E v \in BothPending(r, q) :
              /\ v \in CommittedIn(cur[r])
              /\ v \in ExecutedIn(cur[q])
              /\ Returned(q)
              /\ cur[q].result = "rejected"
              /\ cur[q].failedAt = "insert"
              /\ cur[q].rollback = "done"
              /\ Cardinality({row \in records : row.version = v}) = 1

\* the exec events of a log, in order
ExecEvents(call) == SelectSeq(call.log, LAMBDA ev : ev.e = "exec")

\* what the operation would have worked with had it scanned the directory
\* as it was when the operation started
OnDisk(call) == loadMigrationFiles(call.files)

\* C31: migration definitions are never cached between operations: every
\* getStatus, migrateUp and migrateDown works with the definitions that
\* are in the directory when it is called, whatever an earlier call read,
\* and every downSql migrateDown has run is the text on disk at the time
\* of the rollback, not the text the migration was applied with.
C31_RescansEveryCall ==
    \A r \in Runners :
        /\ cur[r].op \in {"status", "up", "down"}
              => cur[r].defs = OnDisk(cur[r])
        /\ cur[r].op = "status" /\ cur[r].result = "ok"
              => cur[r].batch = StatusList(OnDisk(cur[r]), cur[r].applied)
        /\ cur[r].op = "up" /\ cur[r].result # "rejected"
              => cur[r].batch = PendingMigrations(OnDisk(cur[r]),
                                                  cur[r].applied,
                                                  cur[r].target)
        /\ cur[r].op = "down"
              => /\ Len(cur[r].ran) <= Len(ExecEvents(cur[r]))
                 /\ \A i \in 1..Len(cur[r].ran) :
                       LET onDisk == FileMigration(
                                         OnDisk(cur[r]),
                                         ExecEvents(cur[r])[i].version)
                       IN  /\ onDisk # <<>>
                           /\ cur[r].ran[i] = onDisk[1].downSql

\* add_users was applied by a migrateUp, its down file was edited, and the
\* migrateDown that followed ran the edited text and committed
C31_Witness ==
    \E r \in Runners :
        /\ cur[r].op = "down"
        /\ Returned(r)
        /\ cur[r].result = "ok"
        /\ prev[r].op = "up"
        /\ V1 \in CommittedIn(prev[r])
        /\ FileMigration(prev[r].defs, V1) # <<>>
        /\ FileMigration(prev[r].defs, V1)[1].downSql = DropUsers
        /\ V1 \in CommittedIn(cur[r])
        /\ cur[r].ran = <<DropUsersEdited>>
        /\ cur[r].defs # prev[r].defs

\* the definitions of a migrateUp call that have no record among those the
\* call started with and pass its target filter
Unrecorded(call) ==
    SelectSeq(call.defs,
              LAMBDA m : /\ m.version \notin VersionsOf(call.startRecords)
                         /\ Truthy(call.target)
                               => StrLeq(m.version, call.target))

\* the definitions of a call that lie below a version applied at its start
BelowApplied(call) ==
    {m \in SeqRange(call.defs) :
        \E v \in VersionsOf(call.startRecords) : StrLess(m.version, v)}

\* C32: pending is decided by version membership only: a migrateUp that
\* has read the applied records takes every definition without a record
\* that passes the target filter, a definition below an applied version
\* included, and when it returns successfully from a real run it has
\* committed each of them.
C32_PendingByMembership ==
    \A r \in Runners :
        (cur[r].op = "up" /\ ~cur[r].readFailed /\ cur[r].startTable) =>
            /\ cur[r].batch = Unrecorded(cur[r])
            /\ (Returned(r) /\ cur[r].result = "ok" /\ ~cur[r].dryRun) =>
                  \A m \in SeqRange(Unrecorded(cur[r])) :
                      /\ m.version \in CommittedIn(cur[r])
                      /\ m.version \in VersionsOf(records)

\* add_users and add_posts were applied before add_tags, of a lower
\* version, was added: the migrateUp that followed applied add_tags
C32_Witness ==
    \E r \in Runners :
        /\ cur[r].op = "up"
        /\ ~cur[r].readFailed
        /\ ~cur[r].dryRun
        /\ Returned(r)
        /\ cur[r].result = "ok"
        /\ VersionsOf(cur[r].startRecords) = {V2, V3}
        /\ \E m \in BelowApplied(cur[r]) :
              /\ m.version = V1
              /\ m.version \notin VersionsOf(cur[r].startRecords)
              /\ CommittedIn(cur[r]) = {m.version}
              /\ VersionsOf(records) = {V1, V2, V3}

\* the keys of the directory whose up file and down file both have content
CompleteKeys(files) ==
    {key \in KeysIn(files) :
        /\ ContentOf(files, key, "up") # <<>>
        /\ ContentOf(files, key, "down") # <<>>}

\* the pairs of positions of a list whose entries share a version
SameVersion(list) ==
    {p \in (1..Len(list)) \X (1..Len(list)) :
        p[1] < p[2] /\ list[p[1]].version = list[p[2]].version}

\* the events of kind e an operation logged for the definition m
EventsOf(call, e, m) ==
    {i \in 1..Len(call.log) : call.log[i] = Event(e, m.version, m.name)}

\* C33: two complete file pairs that share a version and differ in name
\* are two definitions, and both are pending while the version has no
\* record.  A real migrateUp over them never commits the second and never
\* returns successfully: the INSERT of the second is refused for its
\* version, and once that INSERT has failed the call has rejected with the
\* second's upSql rolled back.  A getStatus that has read the records
\* reports both definitions as pending while the version has no record and
\* both as applied once it has its one record.
C33_SharedVersionPair ==
    \A r \in Runners :
        /\ cur[r].op \in {"status", "up", "down"} =>
              \A k1, k2 \in CompleteKeys(cur[r].files) :
                  (k1 # k2 /\ k1[1] = k2[1]) =>
                      /\ {k1, k2} \subseteq PairsOf(cur[r].defs)
                      /\ (/\ cur[r].op = "up"
                          /\ k1[1] \notin VersionsOf(cur[r].startRecords)
                          /\ Truthy(cur[r].target)
                                => StrLeq(k1[1], cur[r].target))
                            => {k1, k2} \subseteq PairsOf(cur[r].batch)
        /\ (cur[r].op = "up" /\ ~cur[r].dryRun) =>
              \A p \in SameVersion(cur[r].batch) :
                  LET first == cur[r].batch[p[1]]
                      second == cur[r].batch[p[2]]
                  IN  /\ cur[r].result # "ok"
                      /\ EventsOf(cur[r], "commit", second) = {}
                      /\ (cur[r].idx = p[2]) =>
                            /\ pc[r] # "up_commit"
                            /\ EventsOf(cur[r], "commit", first) # {}
                            /\ pc[r] = "up_insert" => ~InsertOk(NewRow(second))
                      /\ (Returned(r) /\ cur[r].idx = p[2]
                            /\ cur[r].failedAt = "insert") =>
                            /\ cur[r].result = "rejected"
                            /\ EventsOf(cur[r], "exec", second) # {}
                            /\ EventsOf(cur[r], "rollback", second) # {}
                            /\ schema = cur[r].atSchema
                            /\ first \in {[version |-> row.version,
                                           name |-> row.name,
                                           upSql |-> first.upSql,
                                           downSql |-> first.downSql] :
                                             row \in records}
        /\ (cur[r].op = "status" /\ ~cur[r].readFailed /\ cur[r].startTable)
              => \A p \in SameVersion(cur[r].defs) :
                    LET rows == {row \in records :
                                    row.version = cur[r].defs[p[1]].version}
                        both == IF rows = {} THEN "pending" ELSE "applied"
                    IN  /\ cur[r].batch[p[1]].status = both
                        /\ cur[r].batch[p[2]].status = both
                        /\ Cardinality(rows) <= 1

\* after a migrateUp over add_users and add_tags of one version, getStatus
\* reports both as applied: the one record is that of add_users, and the
\* table of add_tags is not there
C33_Witness ==
    \E r \in Runners :
        /\ cur[r].op = "status"
        /\ ~cur[r].readFailed
        /\ cur[r].files = DirDup
        /\ Len(cur[r].batch) = 2
        /\ cur[r].batch[1] = [version |-> V1, name |-> "add_users",
                              status |-> "applied", appliedAt |-> "now"]
        /\ cur[r].batch[2] = [version |-> V1, name |-> "add_tags",
                              status |-> "applied", appliedAt |-> "now"]
        /\ {row.name : row \in records} = {"add_users"}
        /\ schema = {"test_users"}

\* the versions of the selected records that have no file definition
SkippedIn(call) ==
    {call.batch[i].version :
        i \in {j \in 1..Len(call.batch) :
                  FileMigration(call.defs, call.batch[j].version) = <<>>}}

\* the versions with a record form a prefix of the versions vs
IsPrefix(applied, vs) ==
    \A v \in applied, w \in vs : StrLess(w, v) => w \in applied

\* C34: a real migrateDown that returns successfully has removed the
\* record of every selected version that has a file definition and has
\* left the record of every selected version without one, wherever it lies
\* in the order: a version stays applied above versions that were rolled
\* back, and with no target the records of the skipped versions are what
\* remains of the records read.
C34_SkippedStayApplied ==
    \A r \in Runners :
        (/\ cur[r].op = "down" /\ ~cur[r].dryRun
         /\ Returned(r) /\ cur[r].result = "ok"
         /\ ~cur[r].readFailed /\ cur[r].startTable) =>
            LET selected == VersionsOf(SeqRange(cur[r].batch))
                skipped == SkippedIn(cur[r])
            IN  /\ CommittedIn(cur[r]) = selected \ skipped
                /\ VersionsOf(records) \cap selected = skipped
                /\ {row \in records : row.version \in skipped}
                      = {row \in cur[r].startRecords :
                            row.version \in skipped}
                /\ ~Truthy(cur[r].target) =>
                      /\ selected = VersionsOf(cur[r].startRecords)
                      /\ VersionsOf(records) = skipped

\* migrateDown() returned successfully with the record of add_users, whose
\* down file is empty, left in place: add_posts above it and add_tags below
\* it were rolled back, and the applied versions are no prefix of the
\* versions the database had
C34_Witness ==
    \E r \in Runners :
        /\ cur[r].op = "down"
        /\ ~cur[r].dryRun
        /\ cur[r].target = NoTarget
        /\ Returned(r)
        /\ cur[r].result = "ok"
        /\ ~cur[r].readFailed
        /\ cur[r].files = DirLate
        /\ VersionsOf(cur[r].startRecords) = {V1, V2, V3}
        /\ CommittedIn(cur[r]) = {V1, V3}
        /\ VersionsOf(records) = {V2}
        /\ ~IsPrefix(VersionsOf(records), VersionsOf(cur[r].startRecords))
        /\ schema = {"test_users"}

\* the read of the applied records failed for the operation although the
\* tracking table was there and had records
ReadLost(call) ==
    call.readFailed /\ call.startTable /\ call.startRecords # {}

\* the positions of a batch whose version had a record when the call began
AlreadyApplied(call) ==
    {i \in 1..Len(call.batch) :
        call.batch[i].version \in VersionsOf(call.startRecords)}

\* C35: a failed read of the applied records is an empty list, whatever
\* made it fail.  When it fails while records exist, getStatus resolves
\* with every definition pending; migrateDown selects nothing, touches
\* nothing and resolves; migrateUp takes every definition (that passes the
\* target filter) as pending and sends the upSql of a version that has a
\* record to the database, and such a version is never committed: when its
\* upSql has run, the INSERT is refused for the version.
C35_FailedReadIsEmpty ==
    \A r \in Runners :
        ReadLost(cur[r]) =>
            /\ cur[r].applied = <<>>
            /\ cur[r].op = "status" =>
                  /\ cur[r].result = "ok"
                  /\ Len(cur[r].batch) = Len(cur[r].defs)
                  /\ \A i \in 1..Len(cur[r].batch) :
                        cur[r].batch[i]
                          = [version |-> cur[r].defs[i].version,
                             name |-> cur[r].defs[i].name,
                             status |-> "pending", appliedAt |-> "undefined"]
            /\ cur[r].op = "down" =>
                  /\ Returned(r) /\ cur[r].result = "ok"
                  /\ cur[r].batch = <<>> /\ cur[r].log = <<>>
                  /\ cur[r].ran = <<>>
                  /\ records = cur[r].startRecords
                  /\ schema = cur[r].startSchema
            /\ cur[r].op = "up" =>
                  /\ cur[r].batch
                        = SelectSeq(cur[r].defs,
                                    LAMBDA m : Truthy(cur[r].target)
                                        => StrLeq(m.version, cur[r].target))
                  /\ \A i \in AlreadyApplied(cur[r]) :
                        /\ EventsOf(cur[r], "commit", cur[r].batch[i]) = {}
                        /\ (~cur[r].dryRun /\ cur[r].idx = i) =>
                              /\ pc[r] # "up_commit"
                              /\ pc[r] = "up_insert" =>
                                    /\ cur[r].ran[Len(cur[r].ran)]
                                          = cur[r].batch[i].upSql
                                    /\ ~InsertOk(NewRow(cur[r].batch[i]))
                              /\ Returned(r) => cur[r].result = "rejected"
                  /\ cur[r].startRecords \subseteq records

\* the one failure was that of the read: migrateUp ran the upSql of the
\* applied add_tags again, its INSERT was refused, and the call rolled
\* back and rejected
C35_Witness ==
    \E r \in Runners :
        /\ cur[r].op = "up"
        /\ ReadLost(cur[r])
        /\ faults = 1
        /\ Returned(r)
        /\ cur[r].result = "rejected"
        /\ cur[r].failedAt = "insert"
        /\ AlreadyApplied(cur[r]) = {cur[r].idx}
        /\ cur[r].ran = <<Current(r).upSql>>
        /\ EventsOf(cur[r], "rollback", Current(r)) # {}
        /\ records = cur[r].startRecords

\* two migrateDown calls of two instances that run for real, the second
\* started while the first was under way
RacingDown(r, q) ==
    /\ r # q
    /\ cur[r].op = "down" /\ ~cur[r].dryRun
    /\ cur[q].op = "down" /\ ~cur[q].dryRun
    /\ cur[r].id \in cur[q].during

\* C36: migrateDown does not look at what its DELETE removed.  A DELETE
\* that finds no row of the version does not fail; the call that has
\* deleted nothing goes on to COMMIT with the downSql of the version run,
\* and a call that returns successfully has committed every selected
\* version that has a file definition, the ones whose record another
\* instance had removed included: of two concurrent calls that both
\* committed a version, at most one removed its record.
C36_DeleteUnchecked ==
    /\ \A r \in Instances :
          (cur[r].op = "down" /\ ~cur[r].dryRun) =>
              /\ cur[r].failedAt = "delete" => faults > 0
              /\ pc[r] = "down_commit" =>
                    /\ tx[r].open
                    /\ cur[r].ran[Len(cur[r].ran)] = CurrentFile(r).downSql
                    /\ tx[r].del = {Current(r).version} \cap cur[r].deleted
              /\ (Returned(r) /\ cur[r].result = "ok") =>
                    CommittedIn(cur[r])
                        = VersionsOf(SeqRange(cur[r].batch))
                              \ SkippedIn(cur[r])
    /\ \A r \in Instances, q \in Instances :
          RacingDown(r, q) =>
              \A v \in CommittedIn(cur[r]) \cap CommittedIn(cur[q]) :
                  ~(v \in cur[r].deleted /\ v \in cur[q].deleted)

\* both instances read the record of a version; the first rolled it back
\* and removed the record, the second ran the downSql again, deleted
\* nothing, committed and returned successfully
C36_Witness ==
    \E r \in Instances, q \in Instances :
        /\ RacingDown(r, q)
        /\ Returned(r) /\ cur[r].result = "ok"
        /\ Returned(q) /\ cur[q].result = "ok"
        /\ \E v \in CommittedIn(cur[r]) \cap CommittedIn(cur[q]) :
              /\ v \in VersionsOf(cur[r].startRecords)
              /\ v \in VersionsOf(cur[q].startRecords)
              /\ v \in cur[r].deleted
              /\ v \notin cur[q].deleted
              /\ v \notin VersionsOf(records)
        /\ Len(cur[q].ran) = Len(cur[q].batch)
        /\ faults = 0

\* the keys that have both files, one of them (or both) without content
EmptyKeys(files) ==
    {key \in KeysIn(files) \ IncompleteKeys(files) :
        \/ ContentOf(files, key, "up") = <<>>
        \/ ContentOf(files, key, "down") = <<>>}

\* the directory with its i-th file emptied, and with that file removed
Emptied(files, i) == [files EXCEPT ![i].content = <<>>]

Removed(files, i) == SubSeq(files, 1, i - 1) \o SubSeq(files, i + 1, Len(files))

\* C37: a migration that has both files, one of them with empty content,
\* is left out of discovery as one with a missing file is: emptying a file
\* of the directory getStatus scans gives the definitions that removing it
\* gives; the
\* migration is no definition, getStatus has no entry for it, migrateUp
\* never takes, executes or commits it, and a migrateDown that has read
\* its record skips it, with a warning, and leaves the record.
C37_EmptyFileExcluded ==
    \A r \in Runners :
        cur[r].op \in {"status", "up", "down"} =>
            /\ cur[r].op = "status" =>
                  \A i \in 1..Len(cur[r].files) :
                      loadMigrationFiles(Emptied(cur[r].files, i))
                          = loadMigrationFiles(Removed(cur[r].files, i))
            /\ \A key \in EmptyKeys(cur[r].files) :
                  /\ key \notin PairsOf(cur[r].defs)
                  /\ cur[r].op \in {"status", "up"} =>
                        key \notin PairsOf(cur[r].batch)
                  /\ cur[r].op = "up" =>
                        \A j \in 1..Len(cur[r].log) :
                            <<cur[r].log[j].version, cur[r].log[j].name>>
                                # key
                  /\ (cur[r].op = "down" /\ ~cur[r].dryRun) =>
                        \A i \in 1..Len(cur[r].batch) :
                            cur[r].batch[i].version = key[1] =>
                                /\ key[1] \in SkippedIn(cur[r])
                                /\ key[1] \notin ExecutedIn(cur[r])
                                /\ key[1] \notin CommittedIn(cur[r])
                                /\ cur[r].batch[i] \in records
                                /\ i < cur[r].idx =>
                                      EventsOf(cur[r], "skip",
                                               cur[r].batch[i]) # {}

\* add_users is applied and its down file is there and empty: getStatus
\* lists add_tags and add_posts and has no entry for add_users
C37_Witness ==
    \E r \in Runners :
        /\ cur[r].op = "status"
        /\ ~cur[r].readFailed
        /\ EmptyKeys(cur[r].files) = {<<V2, "add_users">>}
        /\ HasFile(cur[r].files, <<V2, "add_users">>, "down")
        /\ V2 \in VersionsOf(records)
        /\ PairsOf(cur[r].batch) = {<<V1, "add_tags">>, <<V3, "add_posts">>}

====
